---- MODULE Spec2Model ----
(***************************************************************************)
(* Calendar assistant backend: natural-language intent resolution          *)
(* (app/services/llm_service.py), the chat dispatcher (app/api/routes.py)  *)
(* and the calendar service wrappers (app/services/google_calendar.py,     *)
(* app/utils/error_handler.py).                                            *)
(*                                                                         *)
(* Texts are TLA+ strings handled character by character (SubSeq, Len,     *)
(* \o), so substring tests and the regular expressions of the source are   *)
(* computed as the source computes them.  The helpers of a function of the *)
(* source are local (LET) operators of the operator that models it.        *)
(***************************************************************************)
EXTENDS Integers, Sequences, FiniteSets, TLC

Null == "<null>"

\* None where the value, when there is one, is a record
None == [none |-> TRUE]

(***************************************************************************)
(* Characters and strings                                                  *)
(***************************************************************************)
DigitStr == <<"0", "1", "2", "3", "4", "5", "6", "7", "8", "9">>

UpperStr == <<"A", "B", "C", "D", "E", "F", "G", "H", "I", "J", "K", "L", "M",
              "N", "O", "P", "Q", "R", "S", "T", "U", "V", "W", "X", "Y", "Z">>

LowerStr == <<"a", "b", "c", "d", "e", "f", "g", "h", "i", "j", "k", "l", "m",
              "n", "o", "p", "q", "r", "s", "t", "u", "v", "w", "x", "y", "z">>

CharAt(s, i) == IF i >= 1 /\ i <= Len(s) THEN SubSeq(s, i, i) ELSE ""

\* the least element of a set of positions, 0 when it is empty
FirstIn(S) == IF S = {} THEN 0 ELSE CHOOSE x \in S : \A y \in S : x <= y

LowerChar(c) ==
    IF \E k \in 1..26 : UpperStr[k] = c
    THEN LowerStr[CHOOSE k \in 1..26 : UpperStr[k] = c]
    ELSE c

\* str.lower()
Lower(s) ==
    LET RECURSIVE LowerFrom(_)
        LowerFrom(i) ==
            IF i > Len(s) THEN "" ELSE LowerChar(CharAt(s, i)) \o LowerFrom(i + 1)
    IN  LowerFrom(1)

\* str.strip()
Strip(s) ==
    LET RECURSIVE FirstNonSpace(_)
        FirstNonSpace(i) ==
            IF i > Len(s) \/ CharAt(s, i) # " " THEN i ELSE FirstNonSpace(i + 1)
        RECURSIVE LastNonSpace(_)
        LastNonSpace(i) ==
            IF i < 1 \/ CharAt(s, i) # " " THEN i ELSE LastNonSpace(i - 1)
    IN  SubSeq(s, FirstNonSpace(1), LastNonSpace(Len(s)))

\* the text w stands at position i of s
MatchAt(s, i, w) == i >= 1 /\ i + Len(w) - 1 <= Len(s) /\ SubSeq(s, i, i + Len(w) - 1) = w

\* `kw in s` on strings: substring test
Contains(s, kw) == \E i \in 1..(Len(s) - Len(kw) + 1) : MatchAt(s, i, kw)

\* any(word in s for word in kws)
ContainsAny(s, kws) == \E kw \in kws : Contains(s, kw)

\* \d
IsDigit(c) == \E v \in 1..10 : DigitStr[v] = c

IsDigitAt(s, i) == IsDigit(CharAt(s, i))

\* int() of the one or two digits at s[i .. i+n-1]
IntAt(s, i, n) ==
    LET DigitVal(c) == CHOOSE v \in 0..9 : DigitStr[v + 1] = c
    IN  IF n = 1 THEN DigitVal(CharAt(s, i))
        ELSE 10 * DigitVal(CharAt(s, i)) + DigitVal(CharAt(s, i + 1))

Pad2(n) == DigitStr[((n \div 10) % 10) + 1] \o DigitStr[(n % 10) + 1]

RECURSIVE SkipWs(_, _)
\* \s* (greedy); the texts of the model hold no whitespace but spaces
SkipWs(s, i) == IF CharAt(s, i) = " " THEN SkipWs(s, i + 1) ELSE i

RECURSIVE SkipDigits(_, _)
\* \d* (greedy)
SkipDigits(s, i) == IF IsDigitAt(s, i) THEN SkipDigits(s, i + 1) ELSE i

(***************************************************************************)
(* Calendar dates (datetime.date) and timestamps                           *)
(***************************************************************************)
DaysInMonth(y, m) ==
    IF m = 2 THEN (IF (y % 4 = 0 /\ y % 100 # 0) \/ y % 400 = 0 THEN 29 ELSE 28)
    ELSE IF m \in {4, 6, 9, 11} THEN 30 ELSE 31

\* datetime years run from 1 to 9999
ValidDate(dt) ==
    /\ dt.y >= 1 /\ dt.y <= 9999
    /\ dt.m >= 1 /\ dt.m <= 12
    /\ dt.d >= 1 /\ dt.d <= DaysInMonth(dt.y, dt.m)

\* date + timedelta(days = 1)
NextDay(dt) ==
    IF dt.d < DaysInMonth(dt.y, dt.m) THEN [y |-> dt.y, m |-> dt.m, d |-> dt.d + 1]
    ELSE IF dt.m < 12 THEN [y |-> dt.y, m |-> dt.m + 1, d |-> 1]
    ELSE [y |-> dt.y + 1, m |-> 1, d |-> 1]

RECURSIVE AddDays(_, _)
AddDays(dt, n) == IF n = 0 THEN dt ELSE AddDays(NextDay(dt), n - 1)

\* strftime('%Y-%m-%dT%H:%M:%S')
FormatDateTime(dt, h, mi) ==
    Pad2(dt.y \div 100) \o Pad2(dt.y % 100) \o "-" \o Pad2(dt.m) \o "-" \o Pad2(dt.d) \o "T"
        \o Pad2(h) \o ":" \o Pad2(mi) \o ":00"

(***************************************************************************)
(* LLMService._parse_time_expression                                       *)
(***************************************************************************)
\* (am|pm|AM|PM) at position i
PeriodAt(s, i) == i + 1 <= Len(s) /\ SubSeq(s, i, i + 1) \in {"am", "pm", "AM", "PM"}

\* (?::(\d{2})) at position i
MinuteAt(s, i) == CharAt(s, i) = ":" /\ IsDigitAt(s, i + 1) /\ IsDigitAt(s, i + 2)

\* re.search(r'(\d{4}-\d{2}-\d{2})', s): the date of the leftmost occurrence,
\* None when there is none
FirstIsoDate(s) ==
    LET IsoDateAt(i) ==
            /\ i + 9 <= Len(s)
            /\ \A k \in {0, 1, 2, 3, 5, 6, 8, 9} : IsDigitAt(s, i + k)
            /\ CharAt(s, i + 4) = "-"
            /\ CharAt(s, i + 7) = "-"
        DateAt(i) ==
            IF i = 0 THEN None
            ELSE [y |-> 100 * IntAt(s, i, 2) + IntAt(s, i + 2, 2),
                  m |-> IntAt(s, i + 5, 2),
                  d |-> IntAt(s, i + 8, 2)]
    IN  DateAt(FirstIn({i \in 1..Len(s) : IsoDateAt(i)}))

\* The choice tuples of time_range_pattern in the order a backtracking matcher
\* tries them: greedy first (two digits, optional group present), the latest
\* choice undone first.
RangeChoices ==
    [k \in 0..63 |->
        << IF (k \div 32) % 2 = 0 THEN 2 ELSE 1,
           IF (k \div 16) % 2 = 0 THEN 1 ELSE 0,
           IF (k \div 8) % 2 = 0 THEN 1 ELSE 0,
           IF (k \div 4) % 2 = 0 THEN 1 ELSE 0,
           IF (k \div 2) % 2 = 0 THEN 2 ELSE 1,
           IF k % 2 = 0 THEN 1 ELSE 0 >>]

(* re.search(time_range_pattern, time_expr), with time_range_pattern
     (\d{1,2})(?::(\d{2}))?\s*(am|pm|AM|PM)?\s*(?:to|-)?\s*(\d{1,2})(?::(\d{2}))?\s*(am|pm|AM|PM)
   the groups of the leftmost start and the first way found there.  c is the
   tuple of the choices the matcher makes at start i, in the order it makes
   them: c[1] digits of group 1, c[2] group 2 present (1/0), c[3] group 3
   present, c[4] separator present, c[5] digits of group 4, c[6] group 5
   present.  Each \s* takes every space: what follows it never starts with a
   space, so giving spaces back opens no further match.  P1 .. P6 are the
   positions reached after group 1, after the spaces behind group 2, group 3
   and the separator, after group 4 and after the spaces behind group 5.
   The pattern ends in a mandatory am/pm, so a text without one has no match. *)
RangeSearch(s) ==
    LET SepLenAt(i) ==
            IF MatchAt(s, i, "to") THEN 2 ELSE IF CharAt(s, i) = "-" THEN 1 ELSE 0
        P1(i, c) == i + c[1]
        P2(i, c) == SkipWs(s, IF c[2] = 1 THEN P1(i, c) + 3 ELSE P1(i, c))
        P3(i, c) == SkipWs(s, IF c[3] = 1 THEN P2(i, c) + 2 ELSE P2(i, c))
        SkipSep(p, present) == SkipWs(s, IF present THEN p + SepLenAt(p) ELSE p)
        P4(i, c) == SkipSep(P3(i, c), c[4] = 1)
        P5(i, c) == P4(i, c) + c[5]
        P6(i, c) == SkipWs(s, IF c[6] = 1 THEN P5(i, c) + 3 ELSE P5(i, c))
        DigitsAt(p, n) == IsDigitAt(s, p) /\ (n = 2 => IsDigitAt(s, p + 1))
        RangeOk(i, c) ==
            /\ DigitsAt(i, c[1])
            /\ c[2] = 1 => MinuteAt(s, P1(i, c))
            /\ c[3] = 1 => PeriodAt(s, P2(i, c))
            /\ c[4] = 1 => SepLenAt(P3(i, c)) > 0
            /\ DigitsAt(P4(i, c), c[5])
            /\ c[6] = 1 => MinuteAt(s, P5(i, c))
            /\ PeriodAt(s, P6(i, c))
        RangeMatchesAt(i) == IsDigitAt(s, i) /\ \E k \in 0..63 : RangeOk(i, RangeChoices[k])
        RangeGroups(i, c) ==
            [ok |-> TRUE,
             start_hour   |-> IntAt(s, i, c[1]),
             start_min    |-> IF c[2] = 1 THEN IntAt(s, P1(i, c) + 1, 2) ELSE 0,
             start_period |-> IF c[3] = 1 THEN SubSeq(s, P2(i, c), P2(i, c) + 1) ELSE Null,
             end_hour     |-> IntAt(s, P4(i, c), c[5]),
             end_min      |-> IF c[6] = 1 THEN IntAt(s, P5(i, c) + 1, 2) ELSE 0,
             end_period   |-> SubSeq(s, P6(i, c), P6(i, c) + 1)]
        RangeAt(i) ==
            IF i = 0 THEN [ok |-> FALSE]
            ELSE RangeGroups(i, RangeChoices[FirstIn({k \in 0..63 : RangeOk(i, RangeChoices[k])})])
    IN  IF Contains(s, "am") \/ Contains(s, "pm")
        THEN RangeAt(FirstIn({i \in 1..Len(s) : RangeMatchesAt(i)}))
        ELSE [ok |-> FALSE]

(* re.search(single_time_pattern, time_expr), with single_time_pattern
     (\d{1,2})(?::(\d{2}))?\s*(am|pm|AM|PM)?
   every group after the first is optional, so the match starts at the first
   digit and is fully greedy. *)
SingleSearch(s) ==
    LET SingleGroups(i, d, p2) ==
            [ok |-> TRUE,
             hour   |-> IntAt(s, i, d),
             minute |-> IF MinuteAt(s, i + d) THEN IntAt(s, i + d + 1, 2) ELSE 0,
             period |-> IF PeriodAt(s, p2) THEN SubSeq(s, p2, p2 + 1) ELSE Null]
        SingleAt(i, d) ==
            SingleGroups(i, d, SkipWs(s, IF MinuteAt(s, i + d) THEN i + d + 3 ELSE i + d))
        SingleFrom(i) ==
            IF i = 0 THEN [ok |-> FALSE]
            ELSE SingleAt(i, IF IsDigitAt(s, i + 1) THEN 2 ELSE 1)
    IN  SingleFrom(FirstIn({i \in 1..Len(s) : IsDigitAt(s, i)}))

\* hour after the AM/PM conversion of lines 173-184 / 217-221
ApplyPeriod(hour, period) ==
    IF period = "pm" /\ hour # 12 THEN hour + 12
    ELSE IF period = "am" /\ hour = 12 THEN 0
    ELSE hour

\* datetime.min.time().replace(hour=h, minute=m) raises ValueError outside these
ValidClock(h, mi) == h >= 0 /\ h <= 23 /\ mi >= 0 /\ mi <= 59

ParseRaise == [kind |-> "raise", start |-> Null, end |-> Null]

\* lines 148-159: the day the times are on (the text holds a valid date when
\* the third branch is taken)
TargetDate(s, base_date) ==
    IF Contains(s, "tomorrow") THEN AddDays(base_date, 1)
    ELSE IF Contains(s, "next week") THEN AddDays(base_date, 7)
    ELSE IF FirstIsoDate(s) # None THEN FirstIsoDate(s)
    ELSE base_date

(* lines 164-206: the range branch.  The hours after the AM/PM conversion, a
   start without am/pm before an "am" end moved to the afternoon, and the end
   a day later when it is not after the start. *)
RangeTimes(rm, target_date) ==
    LET RangeResult(sh, sm, eh, em, end_date) ==
            IF ~ValidClock(sh, sm) \/ ~ValidClock(eh, em) \/ end_date.y > 9999
            THEN ParseRaise
            ELSE [kind  |-> "ok",
                  start |-> FormatDateTime(target_date, sh, sm),
                  end   |-> FormatDateTime(end_date, eh, em)]
        RangeClock(sh, sm, eh, em) ==
            RangeResult(sh, sm, eh, em,
                        IF eh * 60 + em <= sh * 60 + sm THEN NextDay(target_date)
                        ELSE target_date)
        RangeHours(sh0, eh) ==
            RangeClock(IF rm.start_period = Null /\ rm.end_period = "am" /\ sh0 > eh /\ sh0 # 12
                       THEN sh0 + 12 ELSE sh0,
                       rm.start_min, eh, rm.end_min)
    IN  RangeHours(ApplyPeriod(rm.start_hour, rm.start_period),
                   ApplyPeriod(rm.end_hour, rm.end_period))

\* lines 212-228: the single-time branch; the end is an hour after the start
SingleTimes(sm, target_date) ==
    LET SingleResult(hour, minute, end_date) ==
            IF ~ValidClock(hour, minute) \/ end_date.y > 9999
            THEN ParseRaise
            ELSE [kind  |-> "ok",
                  start |-> FormatDateTime(target_date, hour, minute),
                  end   |-> FormatDateTime(end_date, (hour + 1) % 24, minute)]
        SingleClock(hour, minute) ==
            SingleResult(hour, minute, IF hour = 23 THEN NextDay(target_date) ELSE target_date)
    IN  SingleClock(ApplyPeriod(sm.hour, sm.period), sm.minute)

(* _parse_time_expression(time_expr, base_date): kind "ok" with the two
   formatted timestamps, kind "none" for (None, None), kind "raise" when the
   call raises (ValueError of date.fromisoformat or time.replace, OverflowError
   of the date arithmetic). *)
_parse_time_expression(time_expr, base_date) ==
    LET \* datetime.fromisoformat of line 158 raises ValueError
        BadDate(s) ==
            /\ ~Contains(s, "tomorrow") /\ ~Contains(s, "next week")
            /\ FirstIsoDate(s) # None
            /\ ~ValidDate(FirstIsoDate(s))
        ParseOn(target_date, rm, sm) ==
            IF target_date.y > 9999 THEN ParseRaise
            ELSE IF rm.ok THEN RangeTimes(rm, target_date)
            ELSE IF sm.ok THEN SingleTimes(sm, target_date)
            ELSE [kind |-> "none", start |-> Null, end |-> Null]
        ParseLowered(s) ==
            IF BadDate(s) THEN ParseRaise
            ELSE ParseOn(TargetDate(s, base_date), RangeSearch(s), SingleSearch(s))
    IN  ParseLowered(Strip(Lower(time_expr)))

(***************************************************************************)
(* Text helpers of the field extractors                                    *)
(***************************************************************************)
\* [a-zA-Z]
IsAlpha(c) == \E k \in 1..26 : LowerStr[k] = c \/ UpperStr[k] = c

\* str.title(): a letter is upper-cased after a non-letter, lower-cased after a letter
Title(s) ==
    LET UpperChar(c) ==
            IF \E k \in 1..26 : LowerStr[k] = c
            THEN UpperStr[CHOOSE k \in 1..26 : LowerStr[k] = c]
            ELSE c
        RECURSIVE TitleFrom(_)
        TitleFrom(i) ==
            IF i > Len(s) THEN ""
            ELSE (IF IsAlpha(CharAt(s, i - 1)) THEN LowerChar(CharAt(s, i))
                  ELSE UpperChar(CharAt(s, i)))
                 \o TitleFrom(i + 1)
    IN  TitleFrom(1)

\* str.split(): the maximal runs of non-space characters
Split(s) ==
    LET RECURSIVE SplitFrom(_)
        WordFrom(b, e) == IF b > Len(s) THEN <<>> ELSE <<SubSeq(s, b, e - 1)>> \o SplitFrom(e)
        WordAt(b) == WordFrom(b, FirstIn({j \in b..(Len(s) + 1) : CharAt(s, j) \in {" ", ""}}))
        SplitFrom(i) == WordAt(SkipWs(s, i))
    IN  SplitFrom(1)

\* ' '.join(words[:n]).replace('&', 'and').title()
TitleOfFirst(words, n) ==
    LET RECURSIVE JoinFrom(_)
        JoinFrom(i) ==
            IF i > Len(words) \/ i > n THEN ""
            ELSE IF i = Len(words) \/ i = n THEN words[i]
            ELSE words[i] \o " " \o JoinFrom(i + 1)
        RECURSIVE ReplaceAmp(_, _)
        ReplaceAmp(s, i) ==
            IF i > Len(s) THEN ""
            ELSE (IF CharAt(s, i) = "&" THEN "and" ELSE CharAt(s, i)) \o ReplaceAmp(s, i + 1)
    IN  Title(ReplaceAmp(JoinFrom(1), 1))

NoMatch == [ok |-> FALSE, group |-> ""]

\* re.match(r'\d+(?:pm|am|:\d+)', w): a time token at the start of w
IsTimeToken(w) ==
    /\ IsDigitAt(w, 1)
    /\ \E k \in 2..SkipDigits(w, 1) :
           \/ MatchAt(w, k, "pm") \/ MatchAt(w, k, "am")
           \/ (CharAt(w, k) = ":" /\ IsDigitAt(w, k + 1))

(* re.search of a capture pattern
     (?:k1|k2|..) \s+ (?:with\s+)? ([a-zA-Z\s]+?) tail
   [ok, group] of the leftmost match.  withOpt: the optional "with" is in the
   pattern; withDigits: the capture is [a-zA-Z\s\d]+?; locTail: the tail is
     (?:\s+(?:from|on|\d+\s*(?:am|pm))|\s*$)   and otherwise
     (?:\s+(?:at|from|on|\d)|\s*$).
   Term(p): the tail matches at p (e is where the spaces after p end; of
   \d+\s*(?:am|pm) only all the digits work, fewer are followed by a digit).
   CapLen(st): the lazy capture from st, the least length after which the tail
   matches, 0 when there is none.  StartsAt(i, 1): the capture starts the
   matcher tries at i, in its order: alternatives in order; \s+ is greedy and
   gives spaces back one by one; "with" can only follow all the spaces, and is
   tried before its absence (W and W2 are the numbers of spaces after the key
   and after "with"). *)
CapSearch(s, keys, withOpt, withDigits, locTail) ==
    LET TermAtFrom(p, e) ==
            \/ e > p /\ (MatchAt(s, e, "at") \/ MatchAt(s, e, "from") \/ MatchAt(s, e, "on")
                         \/ IsDigitAt(s, e))
            \/ e > Len(s)
        ClockAt(e) == IsDigitAt(s, e) /\ PeriodAt(s, SkipWs(s, SkipDigits(s, e)))
        TermLocFrom(p, e) ==
            \/ e > p /\ (MatchAt(s, e, "from") \/ MatchAt(s, e, "on") \/ ClockAt(e))
            \/ e > Len(s)
        Term(p) ==
            IF locTail THEN TermLocFrom(p, SkipWs(s, p)) ELSE TermAtFrom(p, SkipWs(s, p))
        IsCapChar(c) == IsAlpha(c) \/ c = " " \/ (withDigits /\ IsDigit(c))
        RECURSIVE CapScan(_, _)
        CapScan(st, L) ==
            IF ~IsCapChar(CharAt(s, st + L - 1)) THEN 0
            ELSE IF Term(st + L) THEN L
            ELSE CapScan(st, L + 1)
        CapLen(st) == CapScan(st, 1)
        WithStartsN(q, W2) == [k \in 1..W2 |-> q + 4 + (W2 + 1 - k)]
        WithStarts(q) ==
            IF withOpt /\ MatchAt(s, q, "with") THEN WithStartsN(q, SkipWs(s, q + 4) - (q + 4))
            ELSE <<>>
        StartsFrom(p, W) ==
            IF W < 1 THEN <<>> ELSE WithStarts(p + W) \o [k \in 1..W |-> p + (W + 1 - k)]
        StartsAfterKey(p) == StartsFrom(p, SkipWs(s, p) - p)
        RECURSIVE StartsAt(_, _)
        StartsAt(i, a) ==
            IF a > Len(keys) THEN <<>>
            ELSE (IF MatchAt(s, i, keys[a]) THEN StartsAfterKey(i + Len(keys[a])) ELSE <<>>)
                 \o StartsAt(i, a + 1)
        FirstCapStart(sts) == FirstIn({k \in 1..Len(sts) : CapLen(sts[k]) > 0})
        CapGroupFrom(st) == [ok |-> TRUE, group |-> SubSeq(s, st, st + CapLen(st) - 1)]
        CapGroupIn(sts) == CapGroupFrom(sts[FirstCapStart(sts)])
        CapGroupAt(i) == IF i = 0 THEN NoMatch ELSE CapGroupIn(StartsAt(i, 1))
    IN  CapGroupAt(FirstIn({i \in 1..Len(s) : FirstCapStart(StartsAt(i, 1)) > 0}))

(* re.search of (\w+)\s+(?:k1|k2|..): [ok, group] of the leftmost match.
   WordEnd(i): the end of the run of word characters from i when spaces and a
   key follow it, else 0. *)
WordBeforeSearch(s, keys) ==
    LET IsWordChar(c) == IsAlpha(c) \/ IsDigit(c) \/ c = "_"
        WordEnd(i) ==
            FirstIn({e \in i..Len(s) :
                        /\ \A q \in i..e : IsWordChar(CharAt(s, q))
                        /\ CharAt(s, e + 1) = " "
                        /\ \E a \in 1..Len(keys) : MatchAt(s, SkipWs(s, e + 1), keys[a])})
        WordGroupAt(i) ==
            IF i = 0 THEN NoMatch ELSE [ok |-> TRUE, group |-> SubSeq(s, i, WordEnd(i))]
    IN  WordGroupAt(FirstIn({i \in 1..Len(s) : WordEnd(i) > 0}))

\* [w for w in words if keep(w)] with the three word filters of the source:
\* lines 425-427 ("meaningful"), 439 ("subject") and 460-462 ("description")
FilterWords(words, which) ==
    LET KeepWord(w, lw) ==
            CASE which = "meaningful" ->
                   /\ lw \notin {"create", "an", "event", "that", "i", "am", "at", "to",
                                 "from", "on", "in", "the", "a", "and", "or", "but", "for"}
                   /\ ~IsTimeToken(lw)
                   /\ lw \notin {"exam", "hall"}
              [] which = "subject" -> lw \notin {"semester", "exam"}
              [] OTHER ->
                   /\ lw \notin {"create", "event", "for", "my", "semester", "exam",
                                 "from", "to", "in", "am", "pm", "hall"}
                   /\ ~IsDigitAt(w, 1)
                   /\ ~IsTimeToken(lw)
        RECURSIVE From(_)
        From(i) ==
            IF i > Len(words) THEN <<>>
            ELSE (IF KeepWord(words[i], Lower(words[i])) THEN <<words[i]>> ELSE <<>>)
                 \o From(i + 1)
    IN  From(1)

\* pre + group.strip().title() + post for a match, else other
Labelled(m, pre, post, other) ==
    IF m.ok THEN pre \o Title(Strip(m.group)) \o post ELSE other

\* pre + group.title() + post for a match, else other
LabelledWord(m, pre, post, other) ==
    IF m.ok THEN pre \o Title(m.group) \o post ELSE other

\* pre + the first three subject words, titled, + post, else other
SubjectLabel(subject_words, pre, post, other) ==
    IF subject_words # <<>> THEN pre \o TitleOfFirst(subject_words, 3) \o post ELSE other

\* the destination of lines 369-372, 472-474 and 506-508
TravelMatch(pl) ==
    IF ContainsAny(pl, {"going to", "trip to", "travel to", "visiting"})
    THEN CapSearch(pl, <<"going to", "trip to", "travel to", "visiting">>, FALSE, FALSE, FALSE)
    ELSE NoMatch

(***************************************************************************)
(* LLMService._extract_summary / _extract_description / _extract_location  *)
(***************************************************************************)
_extract_summary(prompt) ==
    LET \* lines 404-416: the meal named in the text and the person it is with
        MealType(pl) ==
            IF Contains(pl, "breakfast") THEN "breakfast"
            ELSE IF Contains(pl, "lunch") THEN "lunch"
            ELSE IF Contains(pl, "dinner") THEN "dinner"
            ELSE Null
        MealLabel(pl, key, name) ==
            Labelled(CapSearch(pl, <<key>>, TRUE, FALSE, FALSE), name \o " with ", "", name)
        MealSummary(pl, mt) ==
            MealLabel(pl, IF mt = Null THEN "meal" ELSE mt,
                      IF mt = Null THEN "Meal" ELSE Title(mt))
        \* lines 434-445
        SemesterRewrite(meaningful_words, summary) ==
            IF Contains(Lower(summary), "semester")
            THEN SubjectLabel(FilterWords(meaningful_words, "subject"), "", " Semester Exam",
                              "Semester Exam")
            ELSE summary
        \* lines 418-447: the summary built from the meaningful words
        SummaryFromWords(meaningful_words) ==
            IF meaningful_words = <<>> THEN "Event"
            ELSE SemesterRewrite(meaningful_words, TitleOfFirst(meaningful_words, 6))
        \* lines 376-447
        SummaryAfterTravel(pl) ==
            IF ContainsAny(pl, {"meeting", "meet"})
            THEN Labelled(CapSearch(pl, <<"meeting", "meet">>, TRUE, FALSE, FALSE),
                          "Meeting with ", "", "Meeting")
            ELSE IF Contains(pl, "appointment")
            THEN LabelledWord(WordBeforeSearch(pl, <<"appointment">>), "", " Appointment",
                              "Appointment")
            ELSE IF ContainsAny(pl, {"class", "lesson", "training"})
            THEN LabelledWord(WordBeforeSearch(pl, <<"class", "lesson", "training">>), "",
                              " Class", "Class Session")
            ELSE IF ContainsAny(pl, {"lunch", "dinner", "breakfast", "meal"})
            THEN MealSummary(pl, MealType(pl))
            ELSE SummaryFromWords(FilterWords(Split(prompt), "meaningful"))
        SummaryOf(pl) == Labelled(TravelMatch(pl), "Trip to ", "", SummaryAfterTravel(pl))
    IN  SummaryOf(Lower(prompt))

_extract_description(prompt) ==
    LET \* lines 494-499
        ScheduledOf(summary) ==
            IF summary # "" /\ summary # "Event" THEN summary \o " scheduled" ELSE Null
        \* lines 478-499
        DescriptionAfterTravel(pl) ==
            IF ContainsAny(pl, {"meeting", "meet"})
            THEN Labelled(CapSearch(pl, <<"meeting", "meet">>, TRUE, FALSE, FALSE),
                          "Meeting scheduled with ", "", "Meeting scheduled")
            ELSE IF Contains(pl, "appointment")
            THEN LabelledWord(WordBeforeSearch(pl, <<"appointment">>), "",
                              " appointment scheduled", "Appointment scheduled")
            ELSE ScheduledOf(_extract_summary(prompt))
        DescriptionOf(pl) ==
            IF Contains(pl, "exam")
            THEN (IF Contains(pl, "semester")
                  THEN SubjectLabel(FilterWords(Split(prompt), "description"),
                                    "Semester examination for ", "", "Semester examination")
                  ELSE "Examination scheduled")
            ELSE Labelled(TravelMatch(pl), "Travel to ", "", DescriptionAfterTravel(pl))
    IN  DescriptionOf(Lower(prompt))

_extract_location(prompt) ==
    LET Venues == <<"exam hall", "conference room", "room", "hall", "auditorium",
                    "classroom", "lab", "laboratory">>
        \* (?:exam\s+hall|conference\s+room|room|..) at p: the position after the
        \* first alternative that matches, 0 when none does
        VenueEndAt(s, p) ==
            IF MatchAt(s, p, "exam") /\ CharAt(s, p + 4) = " "
               /\ MatchAt(s, SkipWs(s, p + 4), "hall")
            THEN SkipWs(s, p + 4) + 4
            ELSE IF MatchAt(s, p, "conference") /\ CharAt(s, p + 10) = " "
                    /\ MatchAt(s, SkipWs(s, p + 10), "room")
            THEN SkipWs(s, p + 10) + 4
            ELSE IF \E a \in 3..Len(Venues) : MatchAt(s, p, Venues[a])
            THEN p + Len(Venues[FirstIn({a \in 3..Len(Venues) : MatchAt(s, p, Venues[a])})])
            ELSE 0
        \* in\s+((?:exam\s+hall|..|laboratory)\s*\d*) at i
        VenueMatchesAt(s, i) ==
            MatchAt(s, i, "in") /\ CharAt(s, i + 2) = " " /\ VenueEndAt(s, SkipWs(s, i + 2)) > 0
        \* the group from b on: the venue, spaces and digits
        VenueGroup(s, b) ==
            [ok |-> TRUE, group |-> SubSeq(s, b, SkipDigits(s, SkipWs(s, VenueEndAt(s, b))) - 1)]
        VenueGroupAt(s, i) == IF i = 0 THEN NoMatch ELSE VenueGroup(s, SkipWs(s, i + 2))
        VenueSearch(s) == VenueGroupAt(s, FirstIn({i \in 1..Len(s) : VenueMatchesAt(s, i)}))
        \* the candidate of each location pattern, in the order of location_patterns
        LocationMatches(pl) ==
            << VenueSearch(pl),
               CapSearch(pl, <<"at">>, FALSE, FALSE, TRUE),
               CapSearch(pl, <<"in">>, FALSE, FALSE, TRUE),
               CapSearch(pl, <<"office", "building", "center", "restaurant", "cafe", "hotel">>,
                         FALSE, TRUE, FALSE) >>
        LocationAt(ms, k) == IF k = 0 THEN Null ELSE Title(Strip(ms[k].group))
        \* lines 519-527: the first pattern that matches something other than a time
        FirstLocation(ms) ==
            LocationAt(ms, FirstIn({k \in 1..Len(ms) :
                                       ms[k].ok /\ ~IsTimeToken(Lower(Title(Strip(ms[k].group))))}))
        LocationOf(pl) == Labelled(TravelMatch(pl), "", "", FirstLocation(LocationMatches(pl)))
    IN  LocationOf(Lower(prompt))

(***************************************************************************)
(* Values: JSON values of the backend's reply are tagged records; the       *)
(* fields of LLMResponse / ParsedEventData are strings, Null for None.      *)
(* Confidence is counted in hundredths (0.7 is 70).                         *)
(***************************************************************************)
JAbsent == [t |-> "absent"]

JNull == [t |-> "null"]

\* a JSON value of type t: "str", "num", "list" or "dict"
JVal(t, v) == [t |-> t, v |-> v]

\* the keys a parsed_data object of the model may carry ("extra" stands for
\* any key ParsedEventData does not know)
PDKeys == {"summary", "description", "location", "start_time", "end_time", "date",
           "timezone", "event_id", "attendees", "extra"}

EmptyDict == [k \in PDKeys |-> JAbsent]

\* Python truthiness of dict.get(key)
Truthy(j) ==
    CASE j.t \in {"absent", "null"} -> FALSE
      [] j.t = "str" -> j.v # ""
      [] j.t = "num" -> j.v # 0
      [] j.t = "list" -> j.v # <<>>
      [] j.t = "dict" -> \E k \in PDKeys : j.v[k].t # "absent"

IsStr(j, v) == j.t = "str" /\ j.v = v

ActionType == {"create_event", "update_event", "delete_event", "get_events", "unknown"}

\* the outcome of a call: an exception, or the value returned
RaiseResult == [kind |-> "raise", value |-> None]

OkResult(v) == [kind |-> "ok", value |-> v]

(***************************************************************************)
(* LLMService._fallback_parse                                              *)
(***************************************************************************)
FallbackConfidence == 70

ParsedEventData(summary, description, location, start_time, end_time, date, timezone, event_id, attendees) ==
    [summary |-> summary, description |-> description, location |-> location,
     start_time |-> start_time, end_time |-> end_time, date |-> date,
     timezone |-> timezone, event_id |-> event_id, attendees |-> attendees]

\* the keyword tests of lines 324, 339 and 344, in this order: the first class
\* with a keyword in the lower-cased text, else unknown (line 349)
FallbackAction(prompt) ==
    LET Classify(prompt_lower) ==
            IF ContainsAny(prompt_lower, {"create", "add", "schedule", "book", "make"})
            THEN "create_event"
            ELSE IF ContainsAny(prompt_lower, {"update", "change", "modify", "edit", "reschedule"})
            THEN "update_event"
            ELSE IF ContainsAny(prompt_lower, {"show", "list", "get", "view", "see", "check",
                                               "all", "upcoming"})
            THEN "get_events"
            ELSE "unknown"
    IN  Classify(Lower(prompt))

\* endpoint and method of lines 326-327, 341-342, 346-347 and 351-352
FallbackEndpoint(action) ==
    CASE action = "create_event" -> [endpoint |-> "/events", method |-> "POST"]
      [] action = "update_event" -> [endpoint |-> "/events/{event_id}", method |-> "PUT"]
      [] action = "get_events" -> [endpoint |-> "/events", method |-> "GET"]
      [] OTHER -> [endpoint |-> Null, method |-> Null]

\* the create fields with the endpoint's event_id placeholder passed on
FallbackCreateDataWithId(prompt, times) ==
    ParsedEventData(_extract_summary(prompt), _extract_description(prompt),
                    _extract_location(prompt), times.start, times.end,
                    Null, "Asia/Kolkata", "{event_id}", None)

\* lines 330-338: the fields of a created event; date, event_id and
\* attendees are not passed
FallbackCreateData(prompt, times) ==
    ParsedEventData(_extract_summary(prompt), _extract_description(prompt),
                    _extract_location(prompt), times.start, times.end,
                    Null, "Asia/Kolkata", Null, None)

\* the fields extracted for every action, not for create alone
FallbackParsedDataAlways(action, prompt, times) ==
    ParsedEventData(_extract_summary(prompt), Null, Null, Null, Null,
                    Null, "Asia/Kolkata", Null, None)

\* parsed_data of lines 330-338 for create, of lines 340, 345 and 350 otherwise
FallbackParsedData(action, prompt, times) ==
    IF action = "create_event" THEN FallbackCreateData(prompt, times) ELSE None

(* _fallback_parse(prompt), datetime.now() being on base_date.  times, the
   result of _parse_time_expression(prompt), is consulted in the create branch
   alone (line 329), and an exception of the time parser leaves
   _fallback_parse. *)
_fallback_parse(prompt, base_date) ==
    LET \* lines 355-362
        FallbackResponse(action, parsed_data) ==
            [action      |-> action,
             confidence  |-> FallbackConfidence,
             parsed_data |-> parsed_data,
             reasoning   |-> "Fallback parsing detected keywords for " \o action,
             endpoint    |-> FallbackEndpoint(action).endpoint,
             method      |-> FallbackEndpoint(action).method]
        FallbackFor(action, times) ==
            IF action = "create_event" /\ times.kind = "raise" THEN RaiseResult
            ELSE OkResult(FallbackResponse(action, FallbackParsedData(action, prompt, times)))
    IN  FallbackFor(FallbackAction(prompt), _parse_time_expression(prompt, base_date))

(***************************************************************************)
(* LLMService.parse_user_prompt                                            *)
(***************************************************************************)
\* three apostrophes stand for the three backquotes of a markdown code fence
Fence == "'''"

\* lines 243-251: the reply text is pre \o body \o post; what is left of pre
\* and post once the fences are removed
StripFences(text) ==
    LET pre1  == IF MatchAt(text.pre, 1, Fence \o "json")
                 THEN SubSeq(text.pre, 8, Len(text.pre)) ELSE text.pre
        post1 == IF MatchAt(text.post, Len(text.post) - 2, Fence)
                 THEN SubSeq(text.post, 1, Len(text.post) - 3) ELSE text.post
    IN  [pre |-> Strip(pre1), body |-> text.body, post |-> Strip(post1)]

\* json.loads(response_text) succeeds
JsonLoads(text) == text.pre = "" /\ text.post = "" /\ text.body.json

\* a confidence held to be valid whatever number it is
ValidConfidenceUnbounded(v) == v.t = "num"

\* llm_models.py line 58: confidence is a required float with ge=0 and le=1
\* (the model counts it in hundredths)
ValidConfidence(v) == v.t = "num" /\ v.v >= 0 /\ v.v <= 100

\* LLMResponse(**parsed_response) passes validation; ParsedEventData ignores
\* unknown keys, AttendeeData requires the strings name and email
ValidLLMResponse(j) ==
    LET ValidOptStr(v) == v.t \in {"absent", "null", "str"}
        ValidAttendee(a) == a.name.t = "str" /\ a.email.t = "str"
        ValidAttendees(v) ==
            \/ v.t \in {"absent", "null"}
            \/ v.t = "list" /\ \A k \in 1..Len(v.v) : ValidAttendee(v.v[k])
        ValidParsedEventData(d) ==
            /\ \A k \in PDKeys \ {"attendees", "extra"} : ValidOptStr(d[k])
            /\ ValidAttendees(d["attendees"])
    IN  /\ j.action.t = "str" /\ j.action.v \in ActionType
        /\ ValidConfidence(j.confidence)
        /\ \/ j.parsed_data.t \in {"absent", "null"}
           \/ j.parsed_data.t = "dict" /\ ValidParsedEventData(j.parsed_data.v)
        /\ j.reasoning.t = "str"
        /\ ValidOptStr(j.endpoint)
        /\ \/ j.method.t \in {"absent", "null"}
           \/ j.method.t = "str" /\ j.method.v \in {"GET", "POST", "PUT"}

\* the LLMResponse built from a valid object
LLMResponse(j) ==
    LET OptStr(v) == IF v.t = "str" THEN v.v ELSE Null
        Attendees(v) ==
            IF v.t = "list"
            THEN [list |-> [k \in 1..Len(v.v) |->
                               [name |-> v.v[k].name.v, email |-> v.v[k].email.v]]]
            ELSE None
        ToParsedEventData(d) ==
            ParsedEventData(OptStr(d["summary"]), OptStr(d["description"]),
                            OptStr(d["location"]), OptStr(d["start_time"]),
                            OptStr(d["end_time"]), OptStr(d["date"]), OptStr(d["timezone"]),
                            OptStr(d["event_id"]), Attendees(d["attendees"]))
    IN  [action      |-> j.action.v,
         confidence  |-> j.confidence.v,
         parsed_data |-> IF j.parsed_data.t = "dict" THEN ToParsedEventData(j.parsed_data.v)
                         ELSE None,
         reasoning   |-> j.reasoning.v,
         endpoint    |-> OptStr(j.endpoint),
         method      |-> OptStr(j.method)]

\* line 267: the time parser is consulted
NeedTimes(d) == ~(Truthy(d["start_time"]) /\ Truthy(d["end_time"]))

\* the times of the prompt put in place of those the reply supplied
MergeTimesOverwriting(d, times) ==
    LET FillTimes(e) ==
            [e EXCEPT !["start_time"] = JVal("str", times.start),
                      !["end_time"]   = JVal("str", times.end)]
        DefaultTimezone(e) ==
            IF Truthy(e["timezone"]) THEN e
            ELSE [e EXCEPT !["timezone"] = JVal("str", "Asia/Kolkata")]
    IN  IF times.kind = "ok" THEN FillTimes(DefaultTimezone(d)) ELSE DefaultTimezone(d)

\* lines 263-277: default timezone, then the times of the prompt for the
\* missing ones; times is the result of _parse_time_expression(prompt)
MergeTimes(d, times) ==
    LET \* lines 274-277
        FillTimes(e) ==
            [e EXCEPT !["start_time"] = IF Truthy(e["start_time"]) THEN @
                                        ELSE JVal("str", times.start),
                      !["end_time"]   = IF Truthy(e["end_time"]) THEN @
                                        ELSE JVal("str", times.end)]
        \* lines 264-265
        DefaultTimezone(e) ==
            IF Truthy(e["timezone"]) THEN e
            ELSE [e EXCEPT !["timezone"] = JVal("str", "Asia/Kolkata")]
    IN  IF NeedTimes(d) /\ times.kind = "ok" THEN FillTimes(DefaultTimezone(d))
        ELSE DefaultTimezone(d)

\* lines 282-294: parsed_data cleaned by action type before validation
CleanParsedData(j) ==
    IF Truthy(j.parsed_data)
    THEN IF IsStr(j.action, "get_events") THEN [j EXCEPT !.parsed_data = JNull]
         ELSE IF IsStr(j.action, "create_event")
         THEN [j EXCEPT !.parsed_data =
                            JVal("dict", [j.parsed_data.v EXCEPT !["event_id"] = JAbsent])]
         ELSE j
    ELSE j

\* lines 300-310: after a validation error only the known scalar fields of
\* parsed_data are kept
RepairParsedData(j) ==
    IF Truthy(j.parsed_data)
    THEN [j EXCEPT !.parsed_data =
                       JVal("dict",
                            [k \in PDKeys |->
                                IF k \in {"attendees", "extra"} THEN JAbsent
                                ELSE IF k = "event_id" /\ IsStr(j.action, "create_event")
                                THEN JAbsent
                                ELSE j.parsed_data.v[k]])]
    ELSE j

(* _get_system_prompt: the replacement fields str.format finds in the text
   it returns, in order.  {current_time} is at line 47; the braces of
   /events/{{event_id}} at line 41 are doubled and make no field; the braces
   of the two JSON examples at lines 107-131 are not doubled, and the first
   of them opens a field whose name is the text up to the colon, a line
   break, two blanks and "action" in double quotes (written here without the
   line break). *)
_get_system_prompt == <<"current_time", "  \"action\"">>

\* str.format taken for one that leaves unknown fields as they are
StrFormatLenient(fields, kwargs) == "ok"

\* str.format(**kwargs) on a template with these fields: KeyError for the
\* first field that is not a keyword argument
StrFormat(fields, kwargs) ==
    IF \A k \in 1..Len(fields) : fields[k] \in kwargs THEN "ok" ELSE "raise"

\* line 240 is reached, i.e. the backend is asked, only when line 236 returns
GenerateContentCalled == StrFormat(_get_system_prompt, {"current_time"}) = "ok"

\* the calls of a resolution that asks the backend again after an exception
CompletionCallsRetried == IF GenerateContentCalled THEN 1 ELSE 2

\* the calls of self.model.generate_content in one parse_user_prompt: line 240
\* is the one call, in no loop, and the handlers of lines 257 and 314-317
\* return _fallback_parse(prompt), which asks no backend
CompletionCalls == IF GenerateContentCalled THEN 1 ELSE 0

(* Lines 240-312 for one outcome of the text-completion backend: reply.kind
   is "raise" when generate_content raises, else "text" with the reply text.
   The result is the validated intent, or "raise" where the lines end in the
   fallback parser: an exception caught at line 314, or line 257.
   Validate: lines 279-312, validation of the cleaned object and, after its
   error, of the object with the reduced parsed_data.  DataIntent: lines
   261-312 for a parsed_data object d, times being the time parser's result.
   ObjectIntent: a parsed_data that is neither falsy nor an object has no get
   (AttributeError); TextIntent: nor has a reply that is JSON but no object. *)
ReplyIntent(prompt, reply, base_date) ==
    LET ValidateRepaired(j) ==
            IF ValidLLMResponse(j) THEN OkResult(LLMResponse(j)) ELSE RaiseResult
        ValidateCleaned(j) ==
            IF ValidLLMResponse(j) THEN OkResult(LLMResponse(j))
            ELSE ValidateRepaired(RepairParsedData(j))
        Validate(j) == ValidateCleaned(CleanParsedData(j))
        DataIntent(j, d, times) ==
            IF NeedTimes(d) /\ times.kind = "raise" THEN RaiseResult
            ELSE Validate([j EXCEPT !.parsed_data = JVal("dict", MergeTimes(d, times))])
        ObjectIntent(j) ==
            IF ~Truthy(j.parsed_data) THEN Validate(j)
            ELSE IF j.parsed_data.t # "dict" THEN RaiseResult
            ELSE DataIntent(j, j.parsed_data.v, _parse_time_expression(prompt, base_date))
        TextIntent(text) ==
            IF ~JsonLoads(text) THEN RaiseResult
            ELSE IF text.body.value.t # "dict" THEN RaiseResult
            ELSE ObjectIntent(text.body.value.v)
    IN  IF reply.kind = "raise" THEN RaiseResult ELSE TextIntent(StripFences(reply))

(* parse_user_prompt(prompt), the backend answering reply if it is asked.
   Line 236 formats the system prompt first; its KeyError is caught at line
   314 like every other exception of lines 235-312.  Lines 257 and 314-317:
   the fallback parser answers, and its own exception is not caught. *)
parse_user_prompt(prompt, reply, base_date) ==
    LET OrFallback(r, fallback) == IF r.kind = "raise" THEN fallback ELSE r
    IN  OrFallback(IF GenerateContentCalled THEN ReplyIntent(prompt, reply, base_date)
                   ELSE RaiseResult,
                   _fallback_parse(prompt, base_date))

(* Lines 240-317 taken from the return of generate_content on: what
   parse_user_prompt makes of the backend's reply, the fallback parser
   answering where ReplyIntent ends in an exception or at line 257. *)
parse_reply(prompt, reply, base_date) ==
    IF ReplyIntent(prompt, reply, base_date).kind = "raise"
    THEN _fallback_parse(prompt, base_date)
    ELSE ReplyIntent(prompt, reply, base_date)


(***************************************************************************)
(* Exceptions (app/core/exceptions.py) and the calls of the calendar       *)
(* backend (app/utils/error_handler.py)                                    *)
(***************************************************************************)
\* an exception: its class, the status code of an HTTPException (0 for a
\* class that is no HTTPException) and its detail text
Raise(exc, status_code, detail) ==
    [kind |-> "raise", exc |-> exc, status_code |-> status_code, detail |-> detail]

\* isinstance(e, HTTPException)
IsHTTPException(e) == e.status_code # 0

\* the status code alone, the detail dropped
StrExcStatusOnly(e) ==
    IF e.status_code # 0
    THEN DigitStr[((e.status_code \div 100) % 10) + 1] \o Pad2(e.status_code % 100)
    ELSE ""

\* str(e): HTTPException prints its status code before its detail
StrExc(e) ==
    IF IsHTTPException(e)
    THEN DigitStr[((e.status_code \div 100) % 10) + 1] \o Pad2(e.status_code % 100) \o ": "
             \o e.detail
    ELSE e.detail

\* except HTTPException: raise / except Exception as e: raise InternalServerError
Surface(e, failed) ==
    IF IsHTTPException(e) THEN e ELSE Raise("InternalServerError", 500, failed \o e.detail)

\* what the backend answers to a request: no answer in time, no connection,
\* or a response with a status code
Answer(fail, status_code) == [fail |-> fail, status_code |-> status_code]

\* HTTPErrorHandler.handle_google_calendar_response: nothing for status 200,
\* an exception for every other status
handle_google_calendar_response(status_code, operation_context) ==
    LET Detail(text) == operation_context \o ": " \o text
        NotFound ==
            IF Contains(Lower(operation_context), "event") THEN "Event not found"
            ELSE IF Contains(Lower(operation_context), "calendar") THEN "Calendar not found"
            ELSE "Resource not found"
    IN  CASE status_code = 200 -> OkResult(None)
          [] status_code = 400 ->
                Raise("BadRequestError", 400, Detail("Bad Request: Invalid event data"))
          [] status_code = 401 ->
                Raise("AuthenticationError", 401,
                      Detail("Unauthorized: Invalid or expired token"))
          [] status_code = 403 ->
                Raise("AuthorizationError", 403,
                      Detail("Forbidden: Insufficient permissions to access calendar"))
          [] status_code = 404 -> Raise("ResourceNotFoundError", 404, Detail(NotFound))
          [] status_code = 429 ->
                Raise("RateLimitError", 429,
                      Detail("Rate limit exceeded. Please try again later"))
          [] OTHER -> Raise("InternalServerError", 500, Detail("Google Calendar API error: "))

\* the parameters of make_google_api_request
RequestParameters == {"url", "headers", "method", "json_data", "timeout", "operation_context"}

\* APIErrorHandler.make_google_api_request called with the keyword arguments
\* kwargs: the request that left the process ("none" when none did) and the
\* response returned or the exception raised.  A keyword that is no parameter
\* is a TypeError of the call itself.
make_google_api_request(method, kwargs, operation_context, answer) ==
    IF ~(kwargs \subseteq RequestParameters)
    THEN [request |-> "none",
          result  |-> Raise("TypeError", 0, "make_google_api_request() got an unexpected "
                                               \o "keyword argument")]
    ELSE IF method \notin {"GET", "POST", "PUT", "DELETE"}
    THEN [request |-> "none",
          result  |-> Raise("InternalServerError", 500, "Unsupported HTTP method: " \o method)]
    ELSE [request |-> method,
          result  |->
              CASE answer.fail = "Timeout" ->
                      Raise("RequestTimeoutError", 408,
                            operation_context \o ": Request timeout: Google Calendar API "
                                \o "took too long to respond")
                [] answer.fail = "ConnectionError" ->
                      Raise("ServiceUnavailableError", 503,
                            operation_context \o ": Service unavailable: Unable to connect "
                                \o "to Google Calendar API")
                [] OTHER ->
                      handle_google_calendar_response(answer.status_code, operation_context)]

(***************************************************************************)
(* The calendar services (app/services/google_calendar.py)                 *)
(***************************************************************************)
\* the listing sent as a POST request
list_events_service_post(answer, items) ==
    LET Listed(r) ==
            [request |-> r.request,
             result  |-> IF r.result.kind = "raise"
                         THEN Surface(r.result, "Failed to list events: ")
                         ELSE OkResult([kind    |-> "calendar#events",
                                        items   |-> items,
                                        count   |-> Len(items),
                                        message |-> "Events retrieved successfully"])]
    IN  Listed(make_google_api_request("POST",
                   {"url", "headers", "method", "timeout", "operation_context"},
                   "List events", answer))

\* list_events_service(token), the calendar holding items
list_events_service(answer, items) ==
    LET Listed(r) ==
            [request |-> r.request,
             result  |-> IF r.result.kind = "raise"
                         THEN Surface(r.result, "Failed to list events: ")
                         ELSE OkResult([kind    |-> "calendar#events",
                                        items   |-> items,
                                        count   |-> Len(items),
                                        message |-> "Events retrieved successfully"])]
    IN  Listed(make_google_api_request("GET",
                   {"url", "headers", "method", "timeout", "operation_context"},
                   "List events", answer))

\* EventDateTime(dateTime = dateTime, timeZone = timeZone) and its validator
EventDateTime(dateTime, timeZone) ==
    IF dateTime = Null \/ dateTime = ""
    THEN Raise("ValidationError", 0, "Either 'dateTime' or 'date' must be provided")
    ELSE OkResult([dateTime |-> dateTime, date |-> Null, timeZone |-> timeZone])

\* create_event_service(token, event_data); the backend names the event
\* created_id in its response
create_event_service(event_data, answer, created_id) ==
    LET HasTime(dt) == (dt.dateTime # Null /\ dt.dateTime # "") \/ (dt.date # Null /\ dt.date # "")
        BadRequest(detail) == [request |-> "none", result |-> Raise("HTTPException", 400, detail)]
        Created(r) ==
            [request |-> r.request,
             result  |-> IF r.result.kind = "raise"
                         THEN Surface(r.result, "Event creation failed: ")
                         ELSE OkResult([id      |-> created_id,
                                        summary |-> event_data.summary,
                                        start   |-> event_data.start,
                                        end     |-> event_data.end])]
    IN  IF ~HasTime(event_data.start)
        THEN BadRequest("Start time must have either 'dateTime' or 'date' field")
        ELSE IF ~HasTime(event_data.end)
        THEN BadRequest("End time must have either 'dateTime' or 'date' field")
        ELSE Created(make_google_api_request("POST",
                         {"url", "headers", "method", "json_data", "timeout",
                          "operation_context"},
                         "Create event", answer))

\* delete_event_service(token, event_id, send_updates)
delete_event_service(event_id, send_updates, answer) ==
    LET Deleted(message) ==
            OkResult([message |-> message, eventId |-> event_id, deleted |-> TRUE])
        Outcome(r) ==
            [request |-> r.request,
             result  |-> IF r.result.kind = "ok" THEN Deleted("Event deleted successfully")
                         ELSE IF r.result.exc = "ResourceGoneError"
                         THEN Deleted("Event was already deleted")
                         ELSE Surface(r.result, "Event deletion failed: ")]
    IN  Outcome(make_google_api_request("DELETE",
                    {"url", "headers", "method", "params", "timeout", "operation_context"},
                    "Delete event", answer))

\* create_event(event_data) over the client library: HttpError becomes an
\* HTTPException with the status of the response, any other exception an
\* InternalServerError
create_event(event_data, answer, created_id) ==
    [request |-> "POST",
     result  |->
         IF answer.fail # "none"
         THEN Raise("InternalServerError", 500, "Event creation failed: " \o answer.fail)
         ELSE IF answer.status_code # 200
         THEN Raise("HTTPException", answer.status_code, "Failed to create event: HttpError")
         ELSE OkResult([id |-> created_id, summary |-> event_data.summary,
                        start |-> event_data.start, end |-> event_data.end])]

(***************************************************************************)
(* The Event Matcher, LLMService.match_events_for_update_delete            *)
(***************************************************************************)
\* The ranked lists the matcher may return for the candidates events_list:
\* MatchResults of distinct candidates, each with a score above the threshold
\* of 0.2 and its reasons, in descending order of score; the order need not be
\* the candidates' order; the empty list alone when there is no candidate.
match_events_for_update_delete(prompt, events_list) ==
    LET n == Len(events_list)
        MatchResult(k, r, i) ==
            [event         |-> events_list[((r + i - 1) % n) + 1],
             match_score   |-> 25 + 10 * (k - i),
             match_reasons |-> <<"Title keywords found">>]
    IN  {<<>>} \cup {[i \in 1..k |-> MatchResult(k, r, i)] : k \in 1..n, r \in 0..(n - 1)}

(***************************************************************************)
(* The chat dispatcher, chat_endpoint (app/api/routes.py)                  *)
(***************************************************************************)
\* a service called in a request, its argument and the HTTP request it sent
Call(service, arg, request) == [service |-> service, arg |-> arg, request |-> request]

\* str(x) of an optional string
StrOpt(s) == IF s = Null THEN "None" ELSE s

\* str(n) of a count
StrNum(n) == IF n < 10 THEN DigitStr[n + 1] ELSE Pad2(n)

\* the whole ranked list, not cut
AllMatches(matching_events) == matching_events

\* matching_events[:5]
Top5(matching_events) ==
    SubSeq(matching_events, 1, IF Len(matching_events) < 5 THEN Len(matching_events) ELSE 5)

\* the matched event without an id
MatchedEventUnnamed(match) ==
    [id |-> Null, summary |-> match.event.summary,
     start |-> match.event.start, end |-> match.event.end]

\* lines 183-188: the event of a single match, as the update branch reports it
MatchedEvent(match) ==
    [id |-> match.event.id, summary |-> match.event.summary,
     start |-> match.event.start, end |-> match.event.end]

\* datetime.fromisoformat(s).date(): None stands for the ValueError of a text
\* that does not start with a calendar date
IsoDateOf(s) ==
    LET Parsed(d) == IF d = None \/ ~ValidDate(d) THEN None ELSE d
    IN  IF Len(s) < 10 \/ (Len(s) > 10 /\ CharAt(s, 11) \notin {"T", " "}) THEN None
        ELSE Parsed(FirstIsoDate(SubSeq(s, 1, 10)))

\* lines 119-143: the events starting on a day from lo to hi; all events when
\* a date cannot be read (except Exception: pass)
FilterEvents(events, lo, hi) ==
    LET Truthy1(s) == s # Null /\ s # ""
        DateNum(d) == (d.y * 12 + d.m) * 31 + d.d
        Within(d) == DateNum(lo) <= DateNum(d) /\ DateNum(d) <= DateNum(hi)
        TimedIn(e) == Truthy1(e.start.dateTime) /\ Within(IsoDateOf(e.start.dateTime))
        Raises(e) ==
            \/ Truthy1(e.start.dateTime) /\ IsoDateOf(e.start.dateTime) = None
            \/ /\ Truthy1(e.start.date) /\ IsoDateOf(e.start.date) = None
               /\ ~(Truthy1(e.start.dateTime) /\ Within(IsoDateOf(e.start.dateTime)))
        Keep(e) == TimedIn(e) \/ (Truthy1(e.start.date) /\ Within(IsoDateOf(e.start.date)))
    IN  IF lo = None \/ hi = None THEN events
        ELSE IF \E i \in 1..Len(events) : Raises(events[i]) THEN events
        ELSE SelectSeq(events, Keep)

\* lines 115-143 of the get_events branch
FilteredEvents(pd, events) ==
    LET Truthy1(s) == s # Null /\ s # ""
    IN  IF pd = None THEN events
        ELSE IF Truthy1(pd.date) THEN FilterEvents(events, IsoDateOf(pd.date), IsoDateOf(pd.date))
        ELSE IF Truthy1(pd.start_time) /\ Truthy1(pd.end_time)
        THEN FilterEvents(events, IsoDateOf(pd.start_time), IsoDateOf(pd.end_time))
        ELSE events

(***************************************************************************)
(* The algorithm of the Event Matcher (section 4.4 of the specification;   *)
(* scores in hundredths)                                                   *)
(***************************************************************************)
\* a score at the threshold passes as well
AtThreshold(score) == score >= 20

\* events scoring 0.2 or less are discarded
AboveThreshold(score) == score > 20

\* the date filter applied whatever it leaves
PostFilterHard(matches, dated) == dated

\* post-filter refinement: dated, the matches on the target date, replace
\* the ranked list only when there is one of them
PostFilter(matches, dated) == IF dated # <<>> THEN dated ELSE matches

(* match_events(utterance, candidate_events): criteria are the fields the
   resolution of the utterance gave (None when it gave none), similar the
   candidates whose title the similarity ratio puts at 0.75 of the search
   summary (any other at 0.6 or less), base_date the current date.  The value
   holds matches, the thresholded list sorted by descending score, and
   returned, the list after the post-filter.  The candidates of the model are
   well-formed, and their times and the search times are hours from
   midnight. *)
match_events(utterance, candidate_events, criteria, similar, base_date) ==
    LET text == Lower(utterance)
        Has(field) == criteria # None /\ criteria[field] # Null /\ criteria[field] # ""
        TitleOf(e) == Lower(e.summary)
        EventDate(e) ==
            IF e.start.dateTime # Null THEN IsoDateOf(e.start.dateTime)
            ELSE IsoDateOf(e.start.date)
        Words(t) == {Split(t)[k] : k \in 1..Len(Split(t))}
        MonthName(m) ==
            <<"january", "february", "march", "april", "may", "june", "july", "august",
              "september", "october", "november", "december">>[m]
        SearchDate ==
            IF Has("date") THEN IsoDateOf(criteria["date"])
            ELSE IF Has("start_time") THEN IsoDateOf(criteria["start_time"])
            ELSE None
        MinuteOf(t) == 60 * IntAt(t, 12, 2) + IntAt(t, 15, 2)
        \* signals 1 to 4, of the title
        Exact(e) == Has("summary") /\ Contains(TitleOf(e), Lower(criteria["summary"]))
        Fuzzy(i) == Has("summary") /\ ~Exact(candidate_events[i]) /\ i \in similar
        Keyword(e) == \E w \in Words(TitleOf(e)) : Len(w) > 3 /\ Contains(text, w)
        Word(e) == \E w \in Words(text) : Len(w) > 2 /\ Contains(TitleOf(e), w)
        \* signals 5 to 7, of the date and the time
        Today(e) == Contains(text, "today") /\ EventDate(e) = base_date
        Tomorrow(e) == Contains(text, "tomorrow") /\ EventDate(e) = NextDay(base_date)
        OnSearchDate(e) == SearchDate # None /\ EventDate(e) = SearchDate
        MonthDay(e) ==
            /\ EventDate(e) # None
            /\ Contains(text, MonthName(EventDate(e).m) \o " " \o StrNum(EventDate(e).d))
        Mismatch(e) ==
            \/ Contains(text, "today") /\ EventDate(e) # base_date
            \/ Contains(text, "tomorrow") /\ EventDate(e) # NextDay(base_date)
        Near(e) ==
            /\ Has("start_time") /\ e.start.dateTime # Null
            /\ IsoDateOf(criteria["start_time"]) = EventDate(e)
            /\ MinuteOf(criteria["start_time"]) - MinuteOf(e.start.dateTime) \in -30..30
        \* signal 8
        Combined(i, e) ==
            /\ Exact(e) \/ Fuzzy(i) \/ Keyword(e) \/ Word(e)
            /\ Today(e) \/ Tomorrow(e) \/ OnSearchDate(e) \/ MonthDay(e)
        Signals(i, e) ==
            <<[fired |-> Exact(e), score |-> 50, reason |-> "Exact title match"],
              [fired |-> Fuzzy(i), score |-> 30, reason |-> "Similar title"],
              [fired |-> Keyword(e), score |-> 30, reason |-> "Title keyword in request"],
              [fired |-> Word(e), score |-> 40, reason |-> "Request word in title"],
              [fired |-> Today(e), score |-> 60, reason |-> "Event is today"],
              [fired |-> Tomorrow(e), score |-> 60, reason |-> "Event is tomorrow"],
              [fired |-> OnSearchDate(e), score |-> 60, reason |-> "Date matches"],
              [fired |-> MonthDay(e), score |-> 50, reason |-> "Date named in request"],
              [fired |-> Mismatch(e), score |-> -20, reason |-> "Date mismatch"],
              [fired |-> Near(e), score |-> 30, reason |-> "Time matches"],
              [fired |-> Combined(i, e), score |-> 30, reason |-> "Title and date match"]>>
        RECURSIVE Sum(_, _)
        Sum(sig, k) ==
            IF k = 0 THEN 0
            ELSE Sum(sig, k - 1) + (IF sig[k].fired THEN sig[k].score ELSE 0)
        RECURSIVE Reasons(_, _)
        Reasons(sig, k) ==
            IF k = 0 THEN <<>>
            ELSE Reasons(sig, k - 1) \o (IF sig[k].fired THEN <<sig[k].reason>> ELSE <<>>)
        MatchResult(i) ==
            [event         |-> candidate_events[i],
             match_score   |-> Sum(Signals(i, candidate_events[i]), 11),
             match_reasons |-> Reasons(Signals(i, candidate_events[i]), 11)]
        RECURSIVE Scored(_)
        Scored(i) ==
            IF i > Len(candidate_events) THEN <<>>
            ELSE (IF AboveThreshold(MatchResult(i).match_score) THEN <<MatchResult(i)>>
                  ELSE <<>>) \o Scored(i + 1)
        \* a stable sort by descending score
        RECURSIVE Insert(_, _)
        Insert(m, sorted) ==
            IF sorted = <<>> THEN <<m>>
            ELSE IF Head(sorted).match_score >= m.match_score
            THEN <<Head(sorted)>> \o Insert(m, Tail(sorted))
            ELSE <<m>> \o sorted
        RECURSIVE Sorted(_)
        Sorted(ms) ==
            IF ms = <<>> THEN <<>>
            ELSE Insert(ms[Len(ms)], Sorted(SubSeq(ms, 1, Len(ms) - 1)))
        \* the post-filter
        Dated == Contains(text, "tomorrow") \/ Contains(text, "today") \/ SearchDate # None
        TargetDate1 ==
            IF Contains(text, "tomorrow") THEN NextDay(base_date)
            ELSE IF Contains(text, "today") THEN base_date
            ELSE SearchDate
        OnTarget(m) == EventDate(m.event) = TargetDate1
        Refined(matches) ==
            IF Len(matches) > 1 /\ Dated
            THEN Sorted(PostFilter(matches, SelectSeq(matches, OnTarget)))
            ELSE matches
        Ranked(matches) == [matches |-> matches, returned |-> Refined(matches)]
    IN  Ranked(Sorted(Scored(1)))

(* chat_endpoint(prompt_request, token) from line 56 on: llm_response is the
   LLMResponse that llm_service.parse_user_prompt resolved for the utterance
   (line 54).  items is what the calendar holds, list_answer and
   write_answer are the backend's answers to the listing and to the create or
   delete request, matching_events is what the Event Matcher returns when it
   is called, created_id the id the backend gives a created event.  The value
   is the services called in order, the matcher's output when it was called,
   and the ChatResponse returned. *)
chat_endpoint(prompt, llm_response, items, list_answer, write_answer, matching_events, created_id, timestamp) ==
    LET \* lines 303-312
        Respond(success, message, api_response, calls, matched) ==
            [calls   |-> calls,
             matched |-> matched,
             result  |-> OkResult([kind             |-> "calendar#chat",
                                   success          |-> success,
                                   message          |-> message,
                                   action_performed |-> llm_response.action,
                                   confidence       |-> llm_response.confidence,
                                   reasoning        |-> llm_response.reasoning,
                                   data             |-> api_response,
                                   timestamp        |-> timestamp])]
        \* except Exception as e: of a branch
        Failed(prefix, e, calls, matched) ==
            Respond(FALSE, prefix \o StrExc(e), [error |-> StrExc(e)], calls, matched)
        \* lines 64-107
        RECURSIVE JoinNames(_, _)
        JoinNames(attendees, i) ==
            IF i > Len(attendees) THEN ""
            ELSE (IF i > 1 THEN ", " ELSE "") \o StrOpt(attendees[i].displayName)
                     \o JoinNames(attendees, i + 1)
        Attendees(pd) ==
            IF pd.attendees = None THEN <<>>
            ELSE [i \in 1..Len(pd.attendees.list) |->
                     [email |-> pd.attendees.list[i].email,
                      displayName |-> pd.attendees.list[i].name]]
        OrDefault(s, default) == IF s = Null \/ s = "" THEN default ELSE s
        Created(pd, attendees, r) ==
            IF r.result.kind = "raise"
            THEN Failed("Failed to create event: ", r.result,
                        <<Call("create_event_service", pd.summary, r.request)>>, <<>>)
            ELSE Respond(TRUE,
                         "Successfully created event: " \o StrOpt(pd.summary)
                             \o (IF attendees = <<>> THEN ""
                                 ELSE " with attendees: " \o JoinNames(attendees, 1)),
                         r.result.value,
                         <<Call("create_event_service", pd.summary, r.request)>>, <<>>)
        CreateEvent(pd, attendees, start, end) ==
            IF start.kind = "raise" THEN Failed("Failed to create event: ", start, <<>>, <<>>)
            ELSE IF end.kind = "raise" THEN Failed("Failed to create event: ", end, <<>>, <<>>)
            ELSE Created(pd, attendees,
                         create_event_service(
                             [summary     |-> OrDefault(pd.summary, "Event"),
                              description |-> OrDefault(pd.description, ""),
                              location    |-> OrDefault(pd.location, ""),
                              start       |-> start.value,
                              end         |-> end.value,
                              attendees   |-> attendees],
                             write_answer, created_id))
        CreateBranch(pd) ==
            IF pd = None
            THEN Respond(FALSE,
                         "Could not extract event details from your request. Please provide "
                             \o "more specific information.",
                         None, <<>>, <<>>)
            ELSE CreateEvent(pd, Attendees(pd),
                             EventDateTime(pd.start_time, OrDefault(pd.timezone, "Asia/Kolkata")),
                             EventDateTime(pd.end_time, OrDefault(pd.timezone, "Asia/Kolkata")))
        \* lines 109-154
        Listed(r) == <<Call("list_events_service", Null, r.request)>>
        Filtered(r, events, filtered_events) ==
            Respond(TRUE,
                    IF filtered_events # events THEN "Here are your filtered events"
                    ELSE "Here are your upcoming events",
                    [r.result.value EXCEPT !.items = filtered_events,
                                           !.count = Len(filtered_events)],
                    Listed(r), <<>>)
        GetBranch(r) ==
            IF r.result.kind = "raise"
            THEN Failed("Failed to retrieve events: ", r.result, Listed(r), <<>>)
            ELSE Filtered(r, r.result.value.items,
                          FilteredEvents(llm_response.parsed_data, r.result.value.items))
        \* lines 194-211 and 265-282
        Candidate(match) ==
            [id            |-> match.event.id,
             summary       |-> match.event.summary,
             start         |-> match.event.start,
             end           |-> match.event.end,
             match_score   |-> match.match_score,
             match_reasons |-> match.match_reasons]
        MultipleMatches(verb, calls) ==
            Respond(FALSE,
                    "Found " \o StrNum(Len(matching_events)) \o " events that might match. "
                        \o "Please specify which one you want to " \o verb \o ":",
                    [multiple_matches |-> TRUE,
                     matching_events  |-> [i \in 1..Len(Top5(matching_events)) |->
                                              Candidate(Top5(matching_events)[i])]],
                    calls, matching_events)
        NoMatches(verb, calls) ==
            Respond(FALSE,
                    "Could not find any events matching your description. Please be more "
                        \o "specific about which event to " \o verb \o ".",
                    [error      |-> "No matching events found",
                     suggestion |-> "Try including the event title, date, or time in your "
                                        \o "request"],
                    calls, matching_events)
        \* lines 179-193
        UpdateMatched(match, calls) ==
            Respond(FALSE,
                    "Found event to update: '" \o StrOpt(match.event.summary)
                        \o "'. Update functionality will be implemented soon.",
                    [matched_event |-> MatchedEvent(match),
                     match_score   |-> match.match_score,
                     match_reasons |-> match.match_reasons],
                    calls, matching_events)
        \* lines 240-264
        Deleted(match, calls, r) ==
            IF r.result.kind = "raise"
            THEN Failed("Failed to delete event: ", r.result,
                        calls \o <<Call("delete_event_service", match.event.id, r.request)>>,
                        matching_events)
            ELSE Respond(TRUE,
                         "Successfully deleted event: '" \o StrOpt(match.event.summary) \o "'",
                         r.result.value,
                         calls \o <<Call("delete_event_service", match.event.id, r.request)>>,
                         matching_events)
        DeleteMatched(match, calls) ==
            IF match.event.id = Null
            THEN Failed("Failed to delete event: ",
                        Raise("ValidationError", 0, "event_id: Input should be a valid string"),
                        calls, matching_events)
            ELSE Deleted(match, calls, delete_event_service(match.event.id, "all", write_answer))
        \* lines 156-215 and 217-286
        Matched(verb, calls) ==
            IF matching_events = <<>> THEN NoMatches(verb, calls)
            ELSE IF Len(matching_events) = 1
            THEN IF verb = "update" THEN UpdateMatched(matching_events[1], calls)
                 ELSE DeleteMatched(matching_events[1], calls)
            ELSE MultipleMatches(verb, calls)
        FindBranch(verb, r) ==
            IF r.result.kind = "raise"
            THEN Failed(IF verb = "update" THEN "Failed to find events for update: "
                        ELSE "Failed to find events for deletion: ",
                        r.result, Listed(r), <<>>)
            ELSE IF r.result.value.items = <<>>
            THEN Respond(FALSE, "No events found in your calendar to " \o verb \o ".",
                         [error |-> "No events available"], Listed(r), <<>>)
            ELSE Matched(verb,
                         Listed(r) \o <<Call("match_events_for_update_delete", prompt, "none")>>)
        \* lines 288-300
        UnknownBranch ==
            Respond(FALSE, "I couldn't understand your request. Please try rephrasing it.",
                    [suggestions |-> <<"Try: 'Create meeting for 2-3PM tomorrow'",
                                       "Try: 'Show my upcoming events'",
                                       "Try: 'Update my meeting tomorrow'",
                                       "Try: 'Delete my interview on July 28'",
                                       "Try: 'Schedule appointment at 10AM'">>],
                    <<>>, <<>>)
    IN  CASE llm_response.action = "create_event" -> CreateBranch(llm_response.parsed_data)
          [] llm_response.action = "get_events" ->
                GetBranch(list_events_service(list_answer, items))
          [] llm_response.action = "update_event" ->
                FindBranch("update", list_events_service(list_answer, items))
          [] llm_response.action = "delete_event" ->
                FindBranch("delete", list_events_service(list_answer, items))
          [] OTHER -> UnknownBranch

(* LLMService.execute_calendar_action(llm_response): the calls made and the
   dict returned or the HTTPException raised.  list_upcoming_events() gives
   what the calendar holds or raises. *)
execute_calendar_action(llm_response, items, answer, created_id) ==
    LET OrDefault(s, default) == IF s = Null \/ s = "" THEN default ELSE s
        \* line 601: every exception of the body, the HTTPExceptions of lines
        \* 542 and 549 included, is raised again with status 500
        Returned(calls, r) ==
            [calls  |-> calls,
             result |-> IF r.kind = "raise"
                        THEN Raise("HTTPException", 500,
                                   "Failed to execute calendar action: " \o StrExc(r))
                        ELSE r]
        GetEvents ==
            IF answer.fail # "none" \/ answer.status_code # 200
            THEN Raise("InternalServerError", 500, "Failed to list events")
            ELSE OkResult([events |-> items, count |-> Len(items),
                           message |-> "Found " \o StrNum(Len(items)) \o " upcoming events"])
        Created(summary, r) ==
            Returned(<<Call("create_event", summary, r.request)>>,
                     IF r.result.kind = "raise" THEN r.result
                     ELSE OkResult([event   |-> r.result.value,
                                    message |-> "Successfully created event: " \o summary]))
        CreateEvent(data, summary) ==
            IF data.start_time \in {Null, ""} \/ data.end_time \in {Null, ""}
            THEN Returned(<<>>, Raise("HTTPException", 400, "Start and end times are required"))
            ELSE Created(summary,
                         create_event([summary |-> summary,
                                       start |-> EventDateTime(data.start_time,
                                                    OrDefault(data.timezone, "Asia/Kolkata")).value,
                                       end   |-> EventDateTime(data.end_time,
                                                    OrDefault(data.timezone, "Asia/Kolkata")).value],
                                      answer, created_id))
    IN  CASE llm_response.action = "get_events" ->
                Returned(<<Call("list_upcoming_events", Null, "GET")>>, GetEvents)
          [] llm_response.action = "create_event" ->
                IF llm_response.parsed_data = None
                THEN Returned(<<>>, Raise("HTTPException", 400, "No event data found in prompt"))
                ELSE CreateEvent(llm_response.parsed_data,
                                 OrDefault(llm_response.parsed_data.summary, "Event"))
          [] llm_response.action = "update_event" ->
                Returned(<<>>, OkResult([message |-> "Event updates require an event ID. Please "
                                             \o "specify which event you want to update."]))
          [] OTHER ->
                Returned(<<>>, OkResult([message |-> "I couldn't understand your request. "
                                             \o "Please try rephrasing it.",
                                         suggestions |->
                                            <<"Try: 'Create meeting for 2-3PM tomorrow'",
                                              "Try: 'Show my upcoming events'",
                                              "Try: 'Schedule appointment at 10AM'">>]))

(***************************************************************************)
(* Inputs of intent resolution                                             *)
(***************************************************************************)
\* datetime.now() on the days from BaseDate on
MaxDayOffset == 1

BaseDate == [y |-> 2025, m |-> 7, d |-> 30]

\* the day of the scenarios: 2025-07-27
ScenarioDate == [y |-> 2025, m |-> 7, d |-> 27]

BaseDates == {AddDays(BaseDate, n) : n \in 0..MaxDayOffset} \cup {ScenarioDate}

\* utterances: a request word, what it is about, and a time phrase
Verbs == {"create", "Schedule", "book", "add", "show", "list", "update", "reschedule",
          "delete", "cancel", "remove", "show and update", "please"}

Subjects == {"meeting with John", "lunch", "my events"}

TimePhrases == {"", "at 10am", "tomorrow 2-3PM", "at 14:30", "at 25", "for 45 minutes",
                "on 2025-13-28", "next week 9:30 AM to 12 PM"}

\* the utterances of the scenarios
ScenarioPrompts ==
    {"Create meeting with John tomorrow 2-3PM", "schedule doctor appointment at 10am"}

\* time expressions with a range whose two clock times both carry AM or PM
RangeExpressions ==
    {"2PM-3PM", "10AM-11AM", "9:30 AM to 12 PM", "tomorrow 10:30am-11:45am",
     "next week 11am-1pm", "11PM-1AM", "3PM-4PM on 2025-08-02", "on 2025-08-02 3PM-4PM",
     "on 2025-07-31 3PM-4PM"}

\* time expressions with one clock time and neither a range nor a duration
SingleExpressions ==
    {"2PM", "at 9", "10am", "12pm", "12am", "14:30", "tomorrow at 7:15 pm", "11pm",
     "at 5pm on 2025-08-02"}

\* time expressions with a relative date word, alone and with an explicit date
DatedExpressions ==
    {"tomorrow 3PM-4PM", "next week 3PM-4PM", "tomorrow 3PM-4PM on 2025-08-02",
     "3PM-4PM next week on 2025-08-02"}

JoinWords(a, b) == IF b = "" THEN a ELSE a \o " " \o b

Prompts == {JoinWords(JoinWords(v, s), t) : v \in Verbs, s \in Subjects, t \in TimePhrases}

\* a reply object of the backend with the given top-level values
ReplyObject(action, confidence, parsed_data, reasoning) ==
    [action |-> action, confidence |-> confidence, parsed_data |-> parsed_data,
     reasoning |-> reasoning, endpoint |-> JAbsent, method |-> JAbsent]

JsonText(pre, value, post) ==
    [kind |-> "text", pre |-> pre, body |-> [json |-> TRUE, value |-> value], post |-> post]

\* text that is no JSON
ReplyNotJson == [kind |-> "text", pre |-> "Sure: ", body |-> [json |-> FALSE], post |-> ""]

\* a get_events object whose parsed_data is the empty object
ReplyGetEventsEmptyData ==
    JsonText("", JVal("dict", ReplyObject(JVal("str", "get_events"), JVal("num", 95), JVal("dict", EmptyDict),
                                   JVal("str", "view"))), "")

\* a fenced create_event object whose parsed_data names an event_id
ReplyCreateWithId ==
    JsonText(Fence \o "json",
             JVal("dict", ReplyObject(JVal("str", "create_event"), JVal("num", 95),
                               JVal("dict", [EmptyDict EXCEPT !["summary"] = JVal("str", "Demo"),
                                                       !["event_id"] = JVal("str", "evt1")]),
                               JVal("str", "create"))),
             Fence)

\* a delete_event object that fails validation: its attendee has no name
ReplyAttendeeWithoutName ==
    JsonText("", JVal("dict", ReplyObject(JVal("str", "delete_event"), JVal("num", 95),
                   JVal("dict", [EmptyDict EXCEPT !["summary"] = JVal("str", "Demo"),
                              !["attendees"] = JVal("list", <<[name |-> JAbsent,
                                                        email |-> JVal("str", "a@b.c")]>>)]),
                   JVal("str", "delete"))), "")

\* parsed_data of a reply: a summary, and the start_time, end_time and
\* timezone given
ReplyData(start_time, end_time, timezone) ==
    JVal("dict", [EmptyDict EXCEPT !["summary"] = JVal("str", "Demo"),
                                   !["start_time"] = start_time,
                                   !["end_time"] = end_time,
                                   !["timezone"] = timezone])

\* the fences a reply is wrapped in: none, those of a json block, those of a
\* block without a language tag
Fences == {<<"", "">>, <<Fence \o "json", Fence>>, <<Fence, Fence>>}

\* create_event replies: bare and fenced, the confidence valid, missing or
\* outside [0, 1], the reasoning a text or the empty string, parsed_data null
\* or an object with or without a start, an end and a timezone
CreateReplies ==
    {JsonText(f[1], JVal("dict", ReplyObject(JVal("str", "create_event"), c, d, r)), f[2]) :
        f \in Fences,
        c \in {JVal("num", 95), JVal("num", 150), JVal("num", -10), JAbsent},
        r \in {JVal("str", "create"), JVal("str", "")},
        d \in {JNull} \cup {ReplyData(st, et, tz) :
                               st \in {JAbsent, JVal("str", "2025-08-01T09:00:00")},
                               et \in {JAbsent, JVal("str", "2025-08-01T09:30:00")},
                               tz \in {JAbsent, JVal("str", "UTC")}}}

\* the utterances the replies are resolved for: with a time range, with one
\* time, without a time, with a number that is no hour
ReplyPrompts ==
    {"Create meeting with John tomorrow 2-3PM", "schedule doctor appointment at 10am",
     "delete lunch", "create lunch at 25"}

\* what the text-completion backend answers when it is asked
Replies ==
    {[kind |-> "raise"], ReplyNotJson, ReplyGetEventsEmptyData, ReplyCreateWithId,
     ReplyAttendeeWithoutName}

(***************************************************************************)
(* Inputs of the dispatcher and of the calendar services                   *)
(***************************************************************************)
\* the most events a calendar of the model holds
MaxEvents == 6

\* the i-th event of a calendar: timed events, every third one an all-day
\* event, on BaseDate and the day after it
Event(i) ==
    LET Day == SubSeq(FormatDateTime(AddDays(BaseDate, i % 2), 0, 0), 1, 10)
        At(h) == IF i % 3 = 0 THEN [dateTime |-> Null, date |-> Day, timeZone |-> Null]
                 ELSE [dateTime |-> FormatDateTime(AddDays(BaseDate, i % 2), h, 0) \o "Z",
                       date |-> Null, timeZone |-> "UTC"]
    IN  [id      |-> "e" \o Pad2(i),
         summary |-> <<"Standup", "Interview", "Lunch">>[(i % 3) + 1],
         start   |-> At(9 + (i % 8)),
         end     |-> At(10 + (i % 8))]

\* the calendars a run starts with: none of the events, one, two, all
Calendars == {[i \in 1..n |-> Event(i)] : n \in {0, 1, 2, MaxEvents}}

\* the fields of an event to create, with an attendee
FullData ==
    ParsedEventData("Demo", Null, Null, "2025-07-30T10:00:00", "2025-07-30T11:00:00", Null,
                    Null, Null, [list |-> <<[name |-> "John", email |-> "john@example.com"]>>])

\* the fields of a request for the events of a day
DateData == ParsedEventData(Null, Null, Null, Null, Null, "2025-07-31", Null, Null, None)

Intent(action, confidence, parsed_data) ==
    [action |-> action, confidence |-> confidence, parsed_data |-> parsed_data,
     reasoning |-> "resolved", endpoint |-> Null, method |-> Null]

\* resolved intents (LLMResponse values): every action at a low and at a high
\* confidence, without fields and with them, create_event and get_events also
\* without a start or an end and with a date alone
Intents ==
    {Intent(a, c, d) : a \in ActionType, c \in {30, 95}, d \in {None, FullData}}
        \cup {Intent(a, c, d) : a \in {"create_event", "get_events"}, c \in {30, 95},
                                d \in {[FullData EXCEPT !.start_time = Null],
                                       [FullData EXCEPT !.end_time = Null], DateData}}

ChatPrompts == {"Delete my interview on July 28", "Update my meeting tomorrow"}

\* utterances of update and delete requests: with and without a title word
\* of an event, with today, tomorrow, a month and a day, or no date
MatchPrompts ==
    {"delete lunch today", "cancel my interview", "update standup tomorrow",
     "delete view today", "reschedule the meeting", "delete lunch on july 31",
     "cancel lunch", "cancel lunch and interview tomorrow"}

\* the fields the matcher searches by: none, a title with a start, a title
\* with a date no event is on, a title no event has
SearchCriteria ==
    {None,
     ParsedEventData("Lunch", Null, Null, "2025-07-31T14:10:00", Null, Null, Null, Null, None),
     ParsedEventData("lunch", Null, Null, Null, Null, "2025-08-05", Null, Null, None),
     ParsedEventData("Interviews", Null, Null, Null, Null, Null, Null, Null, None)}

\* utterances of whole chat requests
RequestPrompts ==
    {"Show my events for today", "Show my upcoming events", "list my events on 2025-07-31",
     "What is the weather", "Update my meeting tomorrow", "create lunch at 25"}

\* a get_events object whose parsed_data names the date of BaseDate
ReplyGetEventsWithDate ==
    JsonText("", JVal("dict", ReplyObject(JVal("str", "get_events"), JVal("num", 95),
                   JVal("dict", [EmptyDict EXCEPT !["date"] = JVal("str", "2025-07-30")]),
                   JVal("str", "view"))), "")

\* the answers of the calendar backend to a request
Answers ==
    {Answer("none", s) : s \in {200, 204, 401, 404, 410, 429, 500}}
        \cup {Answer("Timeout", 0), Answer("ConnectionError", 0)}

\* no request was answered
NoAnswer == Answer("unasked", 0)

(***************************************************************************)
(* The state machine: one call at a time, its inputs, what it returned,    *)
(* the services it called and what the calendar holds                      *)
(***************************************************************************)
VARIABLES phase, op, now, prompt, reply, result, backend_calls,
          intent, answers, matches, calls, calendar, llm_service, frames

\* the module-level LLMService instance and the requests being served
srvVars == <<llm_service, frames>>

nluVars == <<reply, backend_calls>>

apiVars == <<intent, answers, matches, calls, calendar>>

vars == <<phase, op, now, prompt, result, nluVars, apiVars, srvVars>>

NoReply == [kind |-> "none"]

NoResult == [kind |-> "none", value |-> None]

NoIntent == [action |-> "none"]

NoAnswers == [list |-> NoAnswer, write |-> NoAnswer]

\* llm_service = LLMService(): __init__ sets self.model, the one attribute
LLMService == [model |-> "gemini-1.5-flash"]

\* the most chat requests served at a time
MaxRequests == 2

\* the chat requests served at a time
Requests == 1..MaxRequests

\* what the backends answer to one request: the text-completion backend, the
\* listing with the events it returns, the matcher and the write request
NoBackend ==
    [reply |-> NoReply, items |-> <<>>, list_answer |-> NoAnswer,
     matching_events |-> <<>>, write_answer |-> NoAnswer]

\* the local variables of a request that is not being served
NoFrame ==
    [pc |-> "idle", prompt |-> "", backend |-> NoBackend, llm_response |-> NoResult,
     result |-> NoResult]

Idle ==
    /\ phase = "idle"
    /\ op = "none"
    /\ prompt = ""
    /\ reply = NoReply
    /\ result = NoResult
    /\ backend_calls = 0
    /\ intent = NoIntent
    /\ answers = NoAnswers
    /\ matches = <<>>
    /\ calls = <<>>
    /\ llm_service = LLMService
    /\ frames = [r \in Requests |-> NoFrame]

InitNLU == Idle /\ now \in BaseDates /\ calendar = <<>>

InitAPI == Idle /\ now = BaseDate /\ calendar \in Calendars

InitServe == Idle /\ now = BaseDate /\ calendar = <<>>

Init == InitNLU \/ InitAPI

\* await llm_service.parse_user_prompt(p), the backend answering r if asked
ParseUserPrompt(p, r) ==
    /\ phase = "idle"
    /\ phase' = "done"
    /\ op' = "parse_user_prompt"
    /\ prompt' = p
    /\ reply' = r
    /\ result' = parse_user_prompt(p, r, now)
    /\ backend_calls' = CompletionCalls
    /\ UNCHANGED <<srvVars, now, apiVars>>

\* lines 240-317 of parse_user_prompt(p), the backend having answered r
ParseReply(p, r) ==
    /\ phase = "idle"
    /\ phase' = "done"
    /\ op' = "parse_reply"
    /\ prompt' = p
    /\ reply' = r
    /\ result' = parse_reply(p, r, now)
    /\ backend_calls' = 1
    /\ UNCHANGED <<srvVars, now, apiVars>>

\* llm_service._fallback_parse(p)
FallbackParse(p) ==
    /\ phase = "idle"
    /\ phase' = "done"
    /\ op' = "_fallback_parse"
    /\ prompt' = p
    /\ result' = _fallback_parse(p, now)
    /\ UNCHANGED <<srvVars, now, nluVars, apiVars>>

\* the pair a call of _parse_time_expression returns, or its exception
TimeResult(t) ==
    IF t.kind = "raise" THEN RaiseResult ELSE OkResult([start |-> t.start, end |-> t.end])

\* llm_service._parse_time_expression(p): a pair of timestamps, or an exception
ParseTimeExpression(p) ==
    /\ phase = "idle"
    /\ phase' = "done"
    /\ op' = "_parse_time_expression"
    /\ prompt' = p
    /\ result' = TimeResult(_parse_time_expression(p, now))
    /\ UNCHANGED <<srvVars, now, nluVars, apiVars>>

\* the id the backend gives the next created event
NewId(items) ==
    "n" \o Pad2(CHOOSE k \in 1..(Len(items) + 1) :
                   /\ \A i \in 1..Len(items) : items[i].id # "n" \o Pad2(k)
                   /\ \A j \in 1..(k - 1) : \E i \in 1..Len(items) : items[i].id = "n" \o Pad2(j))

\* what the calendar holds after the requests of calls were answered: a POST
\* answered 200 has added the event created, a DELETE answered 200 or 204 has
\* removed the event named
CalendarAfter(items, cs, answer, created) ==
    LET Sent(method) == \E i \in 1..Len(cs) : cs[i].request = method
        Named(e) == \E i \in 1..Len(cs) : cs[i].request = "DELETE" /\ cs[i].arg = e.id
        Kept(e) == ~Named(e)
    IN  IF answer.fail # "none" THEN items
        ELSE IF Sent("POST") /\ answer.status_code = 200 THEN Append(items, created)
        ELSE IF Sent("DELETE") /\ answer.status_code \in {200, 204} THEN SelectSeq(items, Kept)
        ELSE items

\* POST /chat with the utterance p resolved to llm_response
ChatEndpoint(p, llm_response, list_answer, write_answer, matching_events) ==
    LET Returned(out) ==
            /\ result' = out.result
            /\ calls' = out.calls
            /\ matches' = out.matched
            /\ calendar' = CalendarAfter(calendar, out.calls, write_answer,
                                         IF out.result.value.success
                                         THEN out.result.value.data ELSE None)
    IN  /\ phase = "idle"
        /\ phase' = "done"
        /\ op' = "chat_endpoint"
        /\ prompt' = p
        /\ intent' = llm_response
        /\ answers' = [list |-> list_answer, write |-> write_answer]
        /\ Returned(chat_endpoint(p, llm_response, calendar, list_answer, write_answer,
                                  matching_events, NewId(calendar),
                                  FormatDateTime(now, 0, 0) \o "Z"))
        /\ Len(calendar') <= MaxEvents
        /\ UNCHANGED <<srvVars, now, nluVars>>

\* POST /chat from the utterance p on, the text-completion backend answering r
\* if it is asked: line 54 resolves the intent, resolved being what
\* parse_user_prompt(p) gives, lines 56-312 dispatch it, and lines 314-318
\* turn an exception that left intent resolution into an HTTPException with
\* status 500
ChatRequest(p, r, resolved, list_answer, write_answer, matching_events) ==
    LET Failed ==
            /\ result' = Raise("HTTPException", 500, "Chat processing failed: ")
            /\ intent' = NoIntent
            /\ calls' = <<>>
            /\ matches' = <<>>
            /\ calendar' = calendar
        Returned(llm_response, out) ==
            /\ result' = out.result
            /\ intent' = llm_response
            /\ calls' = out.calls
            /\ matches' = out.matched
            /\ calendar' = CalendarAfter(calendar, out.calls, write_answer,
                                         IF out.result.value.success
                                         THEN out.result.value.data ELSE None)
    IN  /\ phase = "idle"
        /\ phase' = "done"
        /\ op' = "chat_request"
        /\ prompt' = p
        /\ reply' = r
        /\ backend_calls' = CompletionCalls
        /\ answers' = [list |-> list_answer, write |-> write_answer]
        /\ IF resolved.kind = "raise" THEN Failed
           ELSE Returned(resolved.value,
                         chat_endpoint(p, resolved.value, calendar, list_answer,
                                       write_answer, matching_events, NewId(calendar),
                                       FormatDateTime(now, 0, 0) \o "Z"))
        /\ Len(calendar') <= MaxEvents
        /\ UNCHANGED <<srvVars, now>>

\* POST /delete-event: delete_event_service(token, event_id, send_updates)
DeleteEventEndpoint(event_id, send_updates, answer) ==
    LET Returned(out) ==
            /\ result' = out.result
            /\ calls' = <<Call("delete_event_service", event_id, out.request)>>
            /\ calendar' = CalendarAfter(calendar,
                                         <<Call("delete_event_service", event_id, out.request)>>,
                                         answer, None)
    IN  /\ phase = "idle"
        /\ phase' = "done"
        /\ op' = "delete_event_service"
        /\ answers' = [list |-> NoAnswer, write |-> answer]
        /\ Returned(delete_event_service(event_id, send_updates, answer))
        /\ UNCHANGED <<srvVars, now, prompt, nluVars, intent, matches>>

\* llm_service.match_events_for_update_delete(p, calendar): matches is the
\* thresholded, sorted list of the call, intent the fields it searched by
MatchEvents(p, criteria, similar) ==
    /\ phase = "idle"
    /\ \E out \in {match_events(p, calendar, criteria, similar, now)} :
           /\ phase' = "done"
           /\ op' = "match_events_for_update_delete"
           /\ prompt' = p
           /\ intent' = [action |-> "search", parsed_data |-> criteria]
           /\ matches' = out.matches
           /\ result' = OkResult(out.returned)
           /\ UNCHANGED <<srvVars, now, nluVars, answers, calls, calendar>>

\* await llm_service.execute_calendar_action(llm_response)
ExecuteCalendarAction(llm_response, answer) ==
    LET Returned(out) ==
            /\ result' = out.result
            /\ calls' = out.calls
            /\ calendar' = CalendarAfter(calendar, out.calls, answer,
                                         IF out.result.kind = "ok"
                                              /\ llm_response.action = "create_event"
                                         THEN out.result.value.event ELSE None)
    IN  /\ phase = "idle"
        /\ phase' = "done"
        /\ op' = "execute_calendar_action"
        /\ intent' = llm_response
        /\ answers' = [list |-> NoAnswer, write |-> answer]
        /\ Returned(execute_calendar_action(llm_response, calendar, answer, NewId(calendar)))
        /\ Len(calendar') <= MaxEvents
        /\ UNCHANGED <<srvVars, now, prompt, nluVars, matches>>

\* the call is over; the next one starts from nothing kept but the calendar
Return ==
    /\ phase = "done"
    /\ phase' = "idle"
    /\ op' = "none"
    /\ prompt' = ""
    /\ reply' = NoReply
    /\ result' = NoResult
    /\ backend_calls' = 0
    /\ intent' = NoIntent
    /\ answers' = NoAnswers
    /\ matches' = <<>>
    /\ calls' = <<>>
    /\ UNCHANGED <<srvVars, now, calendar>>

CallNLU ==
    \/ \E p \in Prompts \cup ScenarioPrompts, r \in Replies : ParseUserPrompt(p, r)
    \/ \E p \in ReplyPrompts, r \in Replies \cup CreateReplies \cup {ReplyGetEventsWithDate} :
           ParseReply(p, r)
    \/ \E p \in Prompts \cup ScenarioPrompts : FallbackParse(p)
    \/ \E p \in Prompts \cup ScenarioPrompts \cup RangeExpressions \cup SingleExpressions
                  \cup DatedExpressions :
           ParseTimeExpression(p)

\* the action an utterance was resolved to, "none" when resolution raised
ResolvedAction(llm_response) ==
    IF llm_response.kind = "raise" THEN "none" ELSE llm_response.value.action

\* the backend answered the listing with the events
Lists(answer) == answer.fail = "none" /\ answer.status_code = 200

CallAPI ==
    \/ \E p \in ChatPrompts, llm_response \in Intents :
           \E list_answer \in (IF llm_response.action \in {"get_events", "update_event",
                                                           "delete_event"}
                               THEN Answers ELSE {NoAnswer}) :
              \E matching_events \in (IF llm_response.action \in {"update_event", "delete_event"}
                                          /\ Lists(list_answer)
                                      THEN match_events_for_update_delete(p, calendar)
                                      ELSE {<<>>}) :
                 \E write_answer \in (IF \/ llm_response.action = "create_event"
                                         \/ /\ llm_response.action = "delete_event"
                                            /\ Len(matching_events) = 1
                                      THEN Answers ELSE {NoAnswer}) :
                    ChatEndpoint(p, llm_response, list_answer, write_answer, matching_events)
    \/ \E p \in RequestPrompts, r \in {ReplyNotJson, ReplyGetEventsWithDate} :
           \E resolved \in {parse_user_prompt(p, r, now)} :
              \E list_answer \in (IF ResolvedAction(resolved) \in {"get_events", "update_event",
                                                                  "delete_event"}
                                  THEN Answers ELSE {NoAnswer}) :
                 \E matching_events \in (IF ResolvedAction(resolved) \in {"update_event",
                                                                         "delete_event"}
                                             /\ Lists(list_answer)
                                         THEN match_events_for_update_delete(p, calendar)
                                         ELSE {<<>>}) :
                    \E write_answer \in (IF \/ ResolvedAction(resolved) = "create_event"
                                            \/ /\ ResolvedAction(resolved) = "delete_event"
                                               /\ Len(matching_events) = 1
                                         THEN Answers ELSE {NoAnswer}) :
                       ChatRequest(p, r, resolved, list_answer, write_answer,
                                   matching_events)
    \/ \E event_id \in {Event(1).id, "gone"}, send_updates \in {"all", "none"},
          answer \in Answers :
           DeleteEventEndpoint(event_id, send_updates, answer)
    \/ \E llm_response \in Intents, answer \in Answers :
           ExecuteCalendarAction(llm_response, answer)
    \/ /\ calendar \in Calendars
       /\ \E p \in MatchPrompts, criteria \in SearchCriteria :
              \E similar \in {{}, 1..Len(calendar)} \cup {{i} : i \in 1..Len(calendar)} :
                  MatchEvents(p, criteria, similar)

(***************************************************************************)
(* Chat requests served at a time: each runs chat_endpoint in a thread of  *)
(* its own, with its local variables in a frame                            *)
(***************************************************************************)
\* the utterances of the requests served at a time
ServedPrompts ==
    {"Show my upcoming events", "Update my meeting tomorrow",
     "Create meeting with John tomorrow 2-3PM", "create lunch at 25"}

\* the intent another request resolved: what a slot shared by the requests
\* would hold
SharedIntent(r) ==
    IF \E q \in Requests \ {r} : frames[q].llm_response.kind # "none"
    THEN frames[CHOOSE q \in Requests \ {r} : frames[q].llm_response.kind # "none"].llm_response
    ELSE frames[r].llm_response

\* the local variable llm_response of the request r (line 54)
IntentOf(r) == frames[r].llm_response

\* the request r arrives with the utterance p; backend is what the backends
\* answer to it
Receive(r, p, backend) ==
    /\ frames[r].pc = "idle"
    /\ frames' = [frames EXCEPT ![r] = [NoFrame EXCEPT !.pc = "received", !.prompt = p,
                                                       !.backend = backend]]
    /\ UNCHANGED <<phase, op, now, prompt, result, nluVars, apiVars, llm_service>>

\* line 54: llm_response = llm_service.parse_user_prompt(prompt_request.prompt);
\* the call reads self.model and writes nothing of the instance
Resolve(r) ==
    /\ frames[r].pc = "received"
    /\ llm_service.model = LLMService.model
    /\ frames' = [frames EXCEPT ![r].pc = "resolved",
                                ![r].llm_response =
                                    parse_user_prompt(frames[r].prompt, frames[r].backend.reply,
                                                      now)]
    /\ UNCHANGED <<phase, op, now, prompt, result, nluVars, apiVars, llm_service>>

\* lines 56-318 for the request r: the branch of its intent, or the handler of
\* lines 314-318 when intent resolution raised
Dispatch(r) ==
    LET Served(f, llm_response) ==
            IF llm_response.kind = "raise"
            THEN Raise("HTTPException", 500, "Chat processing failed: ")
            ELSE chat_endpoint(f.prompt, llm_response.value, f.backend.items,
                               f.backend.list_answer, f.backend.write_answer,
                               f.backend.matching_events, NewId(f.backend.items),
                               FormatDateTime(now, 0, 0) \o "Z").result
    IN  /\ frames[r].pc = "resolved"
        /\ frames' = [frames EXCEPT ![r].pc = "done",
                                    ![r].result = Served(frames[r], IntentOf(r))]
        /\ UNCHANGED <<phase, op, now, prompt, result, nluVars, apiVars, llm_service>>

\* the response of the request r is sent and its frame is gone
Respond(r) ==
    /\ frames[r].pc = "done"
    /\ frames' = [frames EXCEPT ![r] = NoFrame]
    /\ UNCHANGED <<phase, op, now, prompt, result, nluVars, apiVars, llm_service>>

\* what the backends may answer to the utterance p
Backends(p) ==
    LET Resolved(llm_response, items) ==
            {[reply |-> ReplyNotJson, items |-> items, list_answer |-> list_answer,
              matching_events |-> matching_events, write_answer |-> write_answer] :
                list_answer \in (IF ResolvedAction(llm_response)
                                       \in {"get_events", "update_event", "delete_event"}
                                 THEN {Answer("none", 200)} ELSE {NoAnswer}),
                matching_events \in (IF ResolvedAction(llm_response)
                                           \in {"update_event", "delete_event"}
                                     THEN match_events_for_update_delete(p, items)
                                     ELSE {<<>>}),
                write_answer \in (IF ResolvedAction(llm_response) = "create_event"
                                  THEN {Answer("none", 200)} ELSE {NoAnswer})}
    IN  Resolved(parse_user_prompt(p, ReplyNotJson, now), <<Event(1)>>)

Serve ==
    \E r \in Requests :
        \/ \E p \in ServedPrompts : \E backend \in Backends(p) : Receive(r, p, backend)
        \/ Resolve(r)
        \/ Dispatch(r)
        \/ Respond(r)

NextNLU == CallNLU \/ Return

NextAPI == CallAPI \/ Return

Next == CallNLU \/ CallAPI \/ Return \/ Serve

SpecNLU == InitNLU /\ [][NextNLU]_vars

SpecAPI == InitAPI /\ [][NextAPI]_vars

SpecServe == InitServe /\ [][Serve]_vars

Spec == Init /\ [][Next]_vars

(***************************************************************************)
(* Properties of intent resolution                                         *)
(***************************************************************************)
ParseDone == phase = "done" /\ op = "parse_user_prompt"

FallbackDone == phase = "done" /\ op = "_fallback_parse"

\* an intent was returned by parse_user_prompt or by _fallback_parse
IntentReturned == phase = "done" /\ op \in {"parse_user_prompt", "_fallback_parse"}
                      /\ result.kind = "ok"

\* C1: for every utterance and every outcome of the backend parse_user_prompt
\* returns an intent; no exception leaves it, whatever numbers the utterance
\* holds.
C1_NoExceptionEscapes == ParseDone => result.kind = "ok"

\* the reply is no JSON, or its object fails the LLMResponse schema
ReplyUnusable(r) ==
    /\ r.kind = "text"
    /\ \/ ~JsonLoads(StripFences(r))
       \/ StripFences(r).body.value.t # "dict"
       \/ ~ValidLLMResponse(StripFences(r).body.value.v)

CreateWords == {"create", "add", "schedule", "book", "make"}

ViewWords == {"show", "list", "get", "view", "see", "check", "all", "upcoming"}

UpdateWords == {"update", "change", "modify", "edit", "reschedule"}

DeleteWords == {"delete", "cancel", "remove"}

HasKeyword(p, kws) == ContainsAny(Lower(p), kws)

\* C7: the fallback parser takes the first matching class in the order
\* create, view, update, delete, unknown: a view keyword with an update
\* keyword and no create keyword gives get_events, and a delete keyword
\* alone gives delete_event.
C7_FallbackOrder ==
    (FallbackDone /\ result.kind = "ok" /\ ~HasKeyword(prompt, CreateWords)) =>
        /\ (HasKeyword(prompt, ViewWords) /\ HasKeyword(prompt, UpdateWords))
               => result.value.action = "get_events"
        /\ (HasKeyword(prompt, DeleteWords) /\ ~HasKeyword(prompt, ViewWords)
               /\ ~HasKeyword(prompt, UpdateWords))
               => result.value.action = "delete_event"

ChatDone == phase = "done" /\ op = "chat_endpoint"

DeleteDone == phase = "done" /\ op = "delete_event_service"

\* a service of this name was called in the request
Called(service) == \E i \in 1..Len(calls) : calls[i].service = service

\* the backend answers the write request with a status of success
WriteSucceeds == answers.write.fail = "none" /\ answers.write.status_code \in {200, 204}

\* C2: in the delete branch the delete operation is invoked exactly when the
\* matcher returned one match, with that match's event id, and success is
\* then reported (the backend accepting the deletion); with no match or
\* several matches no delete is issued.
C2_DeleteIffSingleMatch ==
    (ChatDone /\ intent.action = "delete_event") =>
        /\ Called("delete_event_service") <=> Len(matches) = 1
        /\ \A i \in 1..Len(calls) :
               calls[i].service = "delete_event_service" =>
                   /\ calls[i].arg = matches[1].event.id
                   /\ WriteSucceeds => result.value.success

\* C3: an intent of confidence below 0.5 is non-actionable whatever its
\* action: no calendar service is called for it and the response carries the
\* example-prompt suggestions.
C3_LowConfidenceNotActionable ==
    (ChatDone /\ intent.confidence < 50) =>
        /\ calls = <<>>
        /\ result.kind = "ok"
        /\ "suggestions" \in DOMAIN result.value.data

\* the parsed fields are null or lack a start or an end time
LacksTimes(llm_response) ==
    IF llm_response.parsed_data = None THEN TRUE
    ELSE llm_response.parsed_data.start_time = Null \/ llm_response.parsed_data.end_time = Null

\* C4: a create_event intent whose parsed fields are null or lack start_time
\* or end_time ends in a bad-request (400) failure, and no create operation is
\* invoked for it.
C4_MissingTimesIsBadRequest ==
    (phase = "done" /\ op \in {"chat_endpoint", "execute_calendar_action"}
         /\ intent.action = "create_event" /\ LacksTimes(intent)) =>
        /\ result.kind = "raise"
        /\ result.status_code = 400
        /\ calls = <<>>

\* C5: when the backend answers a delete with 410, delete_event_service
\* returns the success record (deleted = true for the requested id); any other
\* failure of the backend is raised.
C5_GoneIsSuccess ==
    DeleteDone =>
        /\ answers.write = Answer("none", 410) =>
               /\ result.kind = "ok"
               /\ result.value.deleted
               /\ result.value.eventId = calls[1].arg
        /\ (answers.write.fail # "none" \/ answers.write.status_code \in {404, 500}) =>
               result.kind = "raise"

\* C10: when the matcher returns n > 1 matches for an update or a delete, the
\* response reports failure and lists min(n, 5) candidates, the first min(n, 5)
\* entries of the ranked output in its order, each with its id, score and
\* reasons, and no write service is called.
C10_AmbiguousMatchListsTop5 ==
    (ChatDone /\ intent.action \in {"update_event", "delete_event"} /\ Len(matches) > 1) =>
        /\ result.kind = "ok"
        /\ ~result.value.success
        /\ "matching_events" \in DOMAIN result.value.data
        /\ Len(result.value.data.matching_events)
               = (IF Len(matches) < 5 THEN Len(matches) ELSE 5)
        /\ \A i \in 1..Len(result.value.data.matching_events) :
               /\ i <= Len(matches)
               /\ result.value.data.matching_events[i].id = matches[i].event.id
               /\ result.value.data.matching_events[i].match_score = matches[i].match_score
               /\ result.value.data.matching_events[i].match_reasons
                      = matches[i].match_reasons
        /\ \A i \in 1..Len(calls) :
               /\ calls[i].request \notin {"POST", "PUT", "DELETE"}
               /\ calls[i].service \notin {"create_event_service", "delete_event_service"}

C10_Witness ==
    /\ ChatDone /\ intent.action = "delete_event" /\ Len(matches) > 5
    /\ result.kind = "ok"
    /\ Len(result.value.data.matching_events) = 5
    /\ result.value.data.matching_events[1].id = matches[1].event.id


\* the request wrote nothing: it called no create or delete service and sent
\* no request that changes the calendar
NoWrite ==
    \A i \in 1..Len(calls) :
        /\ calls[i].request \notin {"POST", "PUT", "PATCH", "DELETE"}
        /\ calls[i].service \notin {"create_event_service", "create_event",
                                    "delete_event_service"}

\* the response reports the single matched event with its score and reasons
ReportsMatch ==
    /\ result.kind = "ok"
    /\ "matched_event" \in DOMAIN result.value.data
    /\ result.value.data.matched_event
           = [id |-> matches[1].event.id, summary |-> matches[1].event.summary,
              start |-> matches[1].event.start, end |-> matches[1].event.end]
    /\ result.value.data.match_score = matches[1].match_score
    /\ result.value.data.match_reasons = matches[1].match_reasons

\* C11: a request resolved to update_event invokes no calendar write in any
\* outcome and leaves the calendar's events as they were; when exactly one
\* event matches, the response reports that event (id, summary, start, end,
\* score, reasons).
C11_UpdateNeverWrites ==
    [][(phase = "idle" /\ op' \in {"chat_endpoint", "execute_calendar_action"}
            /\ intent'.action = "update_event") =>
          /\ NoWrite'
          /\ calendar' = calendar
          /\ (op' = "chat_endpoint" /\ Len(matches') = 1) => ReportsMatch']_vars

C11_Witness ==
    /\ ChatDone /\ intent.action = "update_event" /\ Len(matches) = 1
    /\ Len(calendar) > 1
    /\ ReportsMatch
    /\ result.value.data.matched_event.id # Null


RequestDone == phase = "done" /\ op = "chat_request"

\* the day an utterance names: today, tomorrow or a written date
NamedDay(p) ==
    IF Contains(Lower(p), "today") THEN now
    ELSE IF Contains(Lower(p), "tomorrow") THEN AddDays(now, 1)
    ELSE FirstIsoDate(p)

\* the day an event starts on, timed or all-day
StartDay(e) ==
    IF e.start.dateTime # Null THEN IsoDateOf(e.start.dateTime) ELSE IsoDateOf(e.start.date)

\* the events of items that start on day
EventsOn(items, day) ==
    LET On(e) == StartDay(e) = day
    IN  SelectSeq(items, On)

\* C12: a chat request resolved to get_events whose utterance names a day
\* returns the fetched events that start on that day and no other event; an
\* utterance that names no day returns the whole fetched list.
C12_GetEventsByDate ==
    (RequestDone /\ intent.action = "get_events" /\ Lists(answers.list)) =>
        /\ result.kind = "ok"
        /\ result.value.success
        /\ result.value.data.items
               = (IF NamedDay(prompt) = None THEN calendar
                  ELSE EventsOn(calendar, NamedDay(prompt)))


\* the fields of a chat response
ChatResponseFields ==
    {"kind", "success", "message", "action_performed", "confidence", "reasoning", "data",
     "timestamp"}

\* the request returned a response object that carries the resolved intent's
\* action, confidence and reasoning
ResponseCarriesIntent ==
    /\ result.kind = "ok"
    /\ DOMAIN result.value = ChatResponseFields
    /\ result.value.success \in BOOLEAN
    /\ intent # NoIntent
    /\ result.value.action_performed = intent.action
    /\ result.value.confidence = intent.confidence
    /\ result.value.reasoning = intent.reasoning

\* C13: every chat request, whatever branch serves it and whatever the
\* calendar backend answers, returns a response object with success, message,
\* action_performed, confidence, reasoning, data and timestamp, whose action,
\* confidence and reasoning are those of the resolved intent.
C13_EveryRequestAnswered ==
    (ChatDone \/ RequestDone) => ResponseCarriesIntent


\* the backend's answer to the request of a call
AnswerTo(call) == IF call.service = "list_events_service" THEN answers.list ELSE answers.write

\* the backend failed the request: no answer, no connection, or an error status
BackendFailure(answer) == answer.fail # "none" \/ answer.status_code >= 400

\* what the error detail says of a failure of the backend
FailureText(answer) ==
    CASE answer.fail = "Timeout" -> "Request timeout"
      [] answer.fail = "ConnectionError" -> "Service unavailable"
      [] answer.status_code = 401 -> "Unauthorized"
      [] answer.status_code = 404 -> "not found"
      [] answer.status_code = 429 -> "Rate limit exceeded"
      [] OTHER -> "Google Calendar API error"

\* a request of the dispatcher reached the backend and failed there
FailedCalls == {i \in 1..Len(calls) : calls[i].request # "none"
                                        /\ BackendFailure(AnswerTo(calls[i]))}

\* C14: when a request the chat dispatcher sends to the calendar backend to
\* list, create or delete events fails (network, auth, quota, not found), the
\* response reports failure and its message and data carry the error detail
\* of that failure; success is never reported.
C14_BackendFailureSurfaced ==
    (ChatDone \/ RequestDone) =>
        \A i \in FailedCalls :
            /\ result.kind = "ok"
            /\ ~result.value.success
            /\ Contains(result.value.message, FailureText(AnswerTo(calls[i])))
            /\ "error" \in DOMAIN result.value.data
            /\ Contains(result.value.data.error, FailureText(AnswerTo(calls[i])))

C14_Witness ==
    /\ ChatDone /\ intent.action = "create_event"
    /\ FailedCalls # {}
    /\ answers.write = Answer("none", 401)
    /\ ~result.value.success
    /\ Contains(result.value.message, "Unauthorized")


ServedAlone(f) ==
    LET Served(llm_response) ==
            IF llm_response.kind = "raise"
            THEN Raise("HTTPException", 500, "Chat processing failed: ")
            ELSE chat_endpoint(f.prompt, llm_response.value, f.backend.items,
                               f.backend.list_answer, f.backend.write_answer,
                               f.backend.matching_events, NewId(f.backend.items),
                               FormatDateTime(now, 0, 0) \o "Z").result
    IN  Served(parse_user_prompt(f.prompt, f.backend.reply, now))

TimeDone == phase = "done" /\ op = "_parse_time_expression"

\* the day a time expression is about
InferredDate(p) ==
    IF Contains(Lower(p), "tomorrow") THEN AddDays(now, 1)
    ELSE IF Contains(Lower(p), "next week") THEN AddDays(now, 7)
    ELSE IF FirstIsoDate(p) # None THEN FirstIsoDate(p)
    ELSE now

\* a timestamp YYYY-MM-DDTHH:MM:SS: its day, its hour, and its minute of the
\* day
DayOf(t) == FirstIsoDate(SubSeq(t, 1, 10))

HourOf(t) == IntAt(t, 12, 2)

MinuteOfDay(t) == 60 * IntAt(t, 12, 2) + IntAt(t, 15, 2)

\* C17: for a time expression with a range whose two clock times both carry
\* AM or PM, the time parser returns an end timestamp strictly after the
\* start timestamp, and both are on the inferred target date.
C17_RangeOnTargetDate ==
    (TimeDone /\ prompt \in RangeExpressions) =>
        /\ result.kind = "ok"
        /\ DayOf(result.value.start) = InferredDate(prompt)
        /\ DayOf(result.value.end) = InferredDate(prompt)
        /\ MinuteOfDay(result.value.start) < MinuteOfDay(result.value.end)

\* C18: for a time expression with a single clock time and neither a range
\* nor a duration, the end timestamp the time parser returns is exactly one
\* hour after the start timestamp.
C18_SingleTimeLastsOneHour ==
    (TimeDone /\ prompt \in SingleExpressions) =>
        /\ result.kind = "ok"
        /\ \/ /\ DayOf(result.value.end) = DayOf(result.value.start)
              /\ MinuteOfDay(result.value.end) = MinuteOfDay(result.value.start) + 60
           \/ /\ DayOf(result.value.end) = AddDays(DayOf(result.value.start), 1)
              /\ MinuteOfDay(result.value.end) + 1440 = MinuteOfDay(result.value.start) + 60

\* C19: scenario A. On 2025-07-27 the utterance "Create meeting with John
\* tomorrow 2-3PM", its times taken from the utterance by the time parser, is
\* resolved to create_event with start_time 2025-07-28T14:00:00, end_time
\* 2025-07-28T15:00:00 and a summary that contains "John".
C19_ScenarioA ==
    (ParseDone /\ now = ScenarioDate /\ prompt = "Create meeting with John tomorrow 2-3PM") =>
        /\ result.kind = "ok"
        /\ result.value.action = "create_event"
        /\ result.value.parsed_data # None
        /\ result.value.parsed_data.start_time = "2025-07-28T14:00:00"
        /\ result.value.parsed_data.end_time = "2025-07-28T15:00:00"
        /\ Contains(result.value.parsed_data.summary, "John")

\* C20: scenario E. When the backend's reply is no JSON, the fallback parser
\* resolves "schedule doctor appointment at 10am" to create_event with the
\* summary "Doctor Appointment", a start_time of hour 10 and an end_time of
\* hour 11 on the same day.
C20_ScenarioE ==
    (phase = "done" /\ prompt = "schedule doctor appointment at 10am"
         /\ (FallbackDone \/ (ParseDone /\ reply = ReplyNotJson))) =>
        /\ result.kind = "ok"
        /\ result.value.action = "create_event"
        /\ result.value.parsed_data # None
        /\ result.value.parsed_data.summary = "Doctor Appointment"
        /\ HourOf(result.value.parsed_data.start_time) = 10
        /\ HourOf(result.value.parsed_data.end_time) = 11
        /\ DayOf(result.value.parsed_data.end_time) = DayOf(result.value.parsed_data.start_time)

\* C26: the time parser takes as target date the current date plus one day
\* for "tomorrow" and plus seven days for "next week", and an explicit
\* YYYY-MM-DD overrides both: a text with "tomorrow" or "next week" and an
\* explicit date yields timestamps on the explicit date.
C26_ExplicitDateOverrides ==
    (TimeDone /\ prompt \in DatedExpressions) =>
        /\ result.kind = "ok"
        /\ DayOf(result.value.start) =
               (IF FirstIsoDate(prompt) # None THEN FirstIsoDate(prompt)
                ELSE IF Contains(Lower(prompt), "tomorrow") THEN AddDays(now, 1)
                ELSE AddDays(now, 7))

(***************************************************************************)
(* Properties of the handling of the backend's reply                       *)
(***************************************************************************)
ReplyDone == phase = "done" /\ op = "parse_reply"

\* the part of an address before its first @
LocalPart(email) ==
    SubSeq(email, 1, (CHOOSE i \in 1..Len(email) :
                          /\ MatchAt(email, i, "@")
                          /\ \A j \in 1..(i - 1) : ~MatchAt(email, j, "@")) - 1)

\* C21: when the backend's reply names an attendee with an email address and
\* no display name, the resolved intent keeps the attendee, named by the local
\* part of the address, and keeps the rest of the backend's result.
C21_AttendeeNameDefaulted ==
    (ReplyDone /\ reply = ReplyAttendeeWithoutName /\ prompt = "delete lunch") =>
        /\ result.kind = "ok"
        /\ result.value.action = "delete_event"
        /\ result.value.confidence = 95
        /\ result.value.parsed_data # None
        /\ result.value.parsed_data.summary = "Demo"
        /\ result.value.parsed_data.attendees =
               [list |-> <<[name |-> LocalPart("a@b.c"), email |-> "a@b.c"]>>]

\* the reply is a JSON object
ReplyIsObject(r) == r.kind = "text" /\ r.body.json /\ r.body.value.t = "dict"

\* the confidence of the reply's object is missing or outside [0, 1]
ConfidenceUnusable(r) ==
    /\ ReplyIsObject(r)
    /\ \/ r.body.value.v.confidence.t # "num"
       \/ r.body.value.v.confidence.v < 0
       \/ r.body.value.v.confidence.v > 100

\* C22: every intent returned carries a confidence in [0, 1], and when the
\* confidence of the backend's reply is missing or outside [0, 1] the intent
\* returned carries the fallback confidence, one constant for every utterance.
C22_ConfidenceInRange ==
    (phase = "done" /\ op \in {"parse_user_prompt", "parse_reply", "_fallback_parse"}
         /\ result.kind = "ok") =>
        /\ result.value.confidence \in 0..100
        /\ (op # "_fallback_parse" /\ ConfidenceUnusable(reply))
               => result.value.confidence = FallbackConfidence

C22_Witness ==
    /\ ReplyDone /\ ReplyIsObject(reply) /\ StripFences(reply).pre = ""
    /\ reply.body.value.v.confidence = JVal("num", 150)
    /\ result.kind = "ok" /\ result.value.confidence = FallbackConfidence

\* C23: every intent returned carries a non-empty reasoning string, on the
\* path of the backend's reply, whatever reasoning the backend supplied, the
\* empty string included, and on the path of the fallback parser.
C23_ReasoningNonEmpty ==
    (phase = "done" /\ op \in {"parse_user_prompt", "parse_reply", "_fallback_parse"}
         /\ result.kind = "ok") =>
        result.value.reasoning # ""

(***************************************************************************)
(* Properties of the Event Matcher                                         *)
(***************************************************************************)
MatchDone == phase = "done" /\ op = "match_events_for_update_delete"

\* C24: for every utterance and every candidate list, the list the matcher
\* returns holds no MatchResult with a score of 0.2 or less, and it is empty
\* when the candidate list is empty.
C24_NoMatchAtOrBelowThreshold ==
    MatchDone =>
        /\ \A k \in 1..Len(result.value) : result.value[k].match_score > 20
        /\ calendar = <<>> => result.value = <<>>

\* of two events with the title the utterance has a word of, the one of today
\* is returned and the one of tomorrow, whose score is 0.2, is not
C24_Witness ==
    /\ MatchDone /\ prompt = "delete view today" /\ intent.parsed_data = None
    /\ Len(calendar) = MaxEvents
    /\ \E k \in 1..Len(result.value) : result.value[k].event = Event(4)
    /\ \A k \in 1..Len(result.value) : result.value[k].event # Event(1)

\* the date the post-filter selects by: tomorrow or today when the utterance
\* says so, else the date of the search criteria, None when there is none
FilterDay ==
    IF Contains(Lower(prompt), "tomorrow") THEN NextDay(now)
    ELSE IF Contains(Lower(prompt), "today") THEN now
    ELSE IF intent.parsed_data = None THEN None
    ELSE IF intent.parsed_data.date # Null THEN IsoDateOf(intent.parsed_data.date)
    ELSE IF intent.parsed_data.start_time # Null THEN IsoDateOf(intent.parsed_data.start_time)
    ELSE None

\* the matches of ms whose event starts on day
MatchesOn(ms, day) ==
    LET On(m) == StartDay(m.event) = day
    IN  SelectSeq(ms, On)

\* C25: the date post-filter of the matcher never turns a non-empty ranked
\* list into an empty one: the candidates of other dates are removed only if
\* at least one candidate remains, else the unfiltered list is returned; and
\* the returned list is sorted by descending score.
C25_PostFilterKeepsAMatch ==
    MatchDone =>
        /\ matches # <<>> => result.value # <<>>
        /\ \/ result.value = matches
           \/ result.value # <<>> /\ result.value = MatchesOn(matches, FilterDay)
        /\ \A k \in 1..(Len(result.value) - 1) :
               result.value[k].match_score >= result.value[k + 1].match_score

\* two matches and none on the date searched by: both are returned
C25_Witness ==
    /\ MatchDone /\ Len(matches) > 1 /\ FilterDay # None
    /\ MatchesOn(matches, FilterDay) = <<>>
    /\ result.value = matches

(***************************************************************************)
(* Properties of the reply's fences and of the time and timezone merge     *)
(***************************************************************************)
\* the reply without its fences
Bare(r) == [r EXCEPT !.pre = "", !.post = ""]

\* the reply is an object valid for the intent schema, bare or in the fences
\* of a json block or of a block without a language tag
FencedOrBare(r) ==
    /\ ReplyIsObject(r)
    /\ <<r.pre, r.post>> \in Fences
    /\ ValidLLMResponse(r.body.value.v)

\* C27: stripping the code fences is transparent: for a reply body that is
\* valid JSON for the intent schema, parse_user_prompt returns the same intent
\* whether the body comes bare, in the fences of a json block, or in plain
\* fences without a language tag.
C27_FencesTransparent ==
    /\ (ParseDone /\ FencedOrBare(reply)) =>
           result = parse_user_prompt(prompt, Bare(reply), now)
    /\ (ReplyDone /\ FencedOrBare(reply)) =>
           result = parse_reply(prompt, Bare(reply), now)

\* the intent returned is made of the reply: its reasoning is the reply's (the
\* fallback parser's reasoning is none of the replies')
FromReply ==
    /\ ReplyDone /\ ReplyIsObject(reply) /\ result.kind = "ok"
    /\ reply.body.value.v.reasoning.t = "str"
    /\ result.value.reasoning = reply.body.value.v.reasoning.v

\* the reply's parsed_data is a non-empty object
ReplyHasData == ReplyIsObject(reply) /\ Truthy(reply.body.value.v.parsed_data)

\* the field of the reply's parsed_data, Null when the reply supplies none
Supplied(field) ==
    IF Truthy(reply.body.value.v.parsed_data.v[field])
    THEN reply.body.value.v.parsed_data.v[field].v ELSE Null

\* what a field of the resolved parsed_data must be: the reply's value when
\* it supplies one, else the time parser's when it gave both times, else none
Merged(field, parsed) ==
    IF Supplied(field) # Null THEN Supplied(field)
    ELSE IF _parse_time_expression(prompt, now).kind = "ok" THEN parsed
    ELSE Null

\* C30: on the path of the backend's reply a start_time or end_time the
\* backend supplied is never overwritten by a value of the time parser: the
\* parser is consulted only when one of the two is missing (an utterance it
\* raises on does no harm when both are supplied), it fills only the missing
\* ones and only when it gave both a start and an end; and a non-empty
\* parsed_data leaves the resolution with a non-empty timezone, Asia/Kolkata
\* by default.
C30_SuppliedTimesKept ==
    /\ (FromReply /\ ReplyHasData /\ result.value.parsed_data # None) =>
           /\ result.value.parsed_data.start_time =
                  Merged("start_time", _parse_time_expression(prompt, now).start)
           /\ result.value.parsed_data.end_time =
                  Merged("end_time", _parse_time_expression(prompt, now).end)
           /\ result.value.parsed_data.timezone =
                  (IF Supplied("timezone") # Null THEN Supplied("timezone")
                   ELSE "Asia/Kolkata")
    /\ (ReplyDone /\ ReplyHasData /\ StripFences(reply).pre = ""
           /\ ValidLLMResponse(reply.body.value.v)
           /\ Supplied("start_time") # Null /\ Supplied("end_time") # Null) => FromReply
    /\ (FromReply /\ ReplyHasData /\ reply.body.value.v.action.v # "get_events") =>
           result.value.parsed_data # None

\* a reply with a start and no end, for an utterance with a time range: the
\* start is the reply's, the end the time parser's, the timezone the default
C30_Witness ==
    /\ FromReply /\ prompt = "Create meeting with John tomorrow 2-3PM"
    /\ reply.body.value.v.parsed_data =
           ReplyData(JVal("str", "2025-08-01T09:00:00"), JAbsent, JAbsent)
    /\ result.value.parsed_data.start_time = "2025-08-01T09:00:00"
    /\ result.value.parsed_data.end_time = _parse_time_expression(prompt, now).end
    /\ result.value.parsed_data.end_time # Null
    /\ result.value.parsed_data.timezone = "Asia/Kolkata"

(***************************************************************************)
(* Properties of the deletion and of the writes of a chat request          *)
(***************************************************************************)
\* C28: when the calendar backend answers a delete request with 204 No
\* Content, delete_event_service returns the success record with deleted true
\* and eventId the requested id, and raises nothing.
C28_DeleteReturnsSuccessOn204 ==
    (DeleteDone /\ answers.write = Answer("none", 204)) =>
        /\ result.kind = "ok"
        /\ result.value.deleted
        /\ result.value.eventId = calls[1].arg

\* the calls of a request that write to the calendar backend
Writes ==
    {i \in 1..Len(calls) :
        \/ calls[i].service \in {"create_event_service", "create_event", "delete_event_service"}
        \/ calls[i].request \in {"POST", "PUT", "PATCH", "DELETE"}}

\* C29: a chat request performs at most one mutating call on the calendar
\* backend, one create or one delete, never both and never twice, and none
\* when the resolved action is get_events, update_event or unknown.
C29_AtMostOneWrite ==
    (ChatDone \/ RequestDone) =>
        /\ Cardinality(Writes) <= 1
        /\ intent.action \in {"get_events", "update_event", "unknown"} => Writes = {}

C29_Witness ==
    /\ ChatDone /\ intent.action = "create_event"
    /\ Len(calls) = 1 /\ calls[1].request = "POST" /\ Writes = {1}
    /\ result.kind = "ok" /\ result.value.success

====
